---- MODULE Spec2Model ----
(***************************************************************************)
(* State-machine model of TheSessionDataProcessor                          *)
(* (libs/tunebook/src/lib/data-processor.ts): the processAllData pipeline, *)
(* the four entity normalizers, the relationship linkers, the musical      *)
(* feature extractor and the search text projector.                        *)
(*                                                                         *)
(* JavaScript strings are sequences of one-character strings, so that      *)
(* parseInt, parseFloat, split, the regular expressions and the template   *)
(* literals are computed character by character.  A property that is       *)
(* absent from a row reads as Undefined.  The number NaN is the integer    *)
(* NaN below, outside the range any bounded input can parse to; "=" on     *)
(* numbers is therefore SameValueZero (the equality of Map keys), and      *)
(* StrictEq gives the IEEE comparison ===.                                 *)
(***************************************************************************)
EXTENDS Integers, Sequences, FiniteSets

VARIABLES
    pc,          \* the step of processAllData that runs next
    outcome,     \* "pending", "returned" (ImportStats) or "rejected" (threw)
    rawData,     \* the arrays loaded by loadRawData
    users,       \* result of extractUsers
    tunes,       \* normalizedTunes
    sets,        \* normalizedSets
    recordings,  \* normalizedRecordings
    sessions,    \* normalizedSessions
    errors,      \* this.errors
    exported,    \* the collections handed to exportProcessedData, or <<>>
    stats,       \* the ImportStats returned, or <<>>
    calls        \* the earlier calls of processAllData on this instance

vars == <<pc, outcome, rawData, users, tunes, sets, recordings, sessions,
          errors, exported, stats, calls>>

----------------------------------------------------------------------------
(* Bounds of the model *)

MaxTuneRows == 3
MaxAliasRows == 2
MaxSetRows == 2
MaxRecordingRows == 2
MaxSessionRows == 2
MaxAbcLen == 3
MaxCalls == 2

----------------------------------------------------------------------------
(* Numbers and strings *)

NaN == -999999999

IsNaN(x) == x = NaN

\* a === b on numbers
StrictEq(a, b) == ~IsNaN(a) /\ ~IsNaN(b) /\ a = b

\* a - b on numbers
Minus(a, b) == IF IsNaN(a) \/ IsNaN(b) THEN NaN ELSE a - b

\* Math.sign
Sign(x) == IF IsNaN(x) THEN NaN ELSE IF x > 0 THEN 1 ELSE IF x < 0 THEN -1 ELSE 0

\* The value read from a property the object does not have.
Undefined == <<"undefined">>

Digits == {"0", "1", "2", "3", "4", "5", "6", "7", "8", "9"}

WhiteSpace == {" ", "\t", "\n", "\r"}

DigitVal(c) ==
    CASE c = "0" -> 0 [] c = "1" -> 1 [] c = "2" -> 2 [] c = "3" -> 3
      [] c = "4" -> 4 [] c = "5" -> 5 [] c = "6" -> 6 [] c = "7" -> 7
      [] c = "8" -> 8 [] c = "9" -> 9

DigitChar(d) ==
    CASE d = 0 -> "0" [] d = 1 -> "1" [] d = 2 -> "2" [] d = 3 -> "3"
      [] d = 4 -> "4" [] d = 5 -> "5" [] d = 6 -> "6" [] d = 7 -> "7"
      [] d = 8 -> "8" [] d = 9 -> "9"

\* s.substring(from - 1): the characters of s from index from on
Drop(s, from) == SubSeq(s, from, Len(s))

\* number of leading characters of s that belong to class
RECURSIVE PrefixLen(_, _)
PrefixLen(s, class) ==
    IF s = <<>> \/ Head(s) \notin class THEN 0
    ELSE 1 + PrefixLen(Tail(s), class)

\* value of a non-empty string of decimal digits
RECURSIVE DigitsValue(_)
DigitsValue(ds) ==
    IF ds = <<>> THEN 0
    ELSE 10 * DigitsValue(SubSeq(ds, 1, Len(ds) - 1)) + DigitVal(ds[Len(ds)])

\* parseInt(s), radix 10: leading white space is skipped, a sign is accepted,
\* the longest prefix of digits is converted and whatever follows is ignored;
\* NaN when there is no digit.  (Hexadecimal "0x" prefixes are not modelled:
\* no input of the model contains one.)
ParseInt(s) ==
    LET t == Drop(s, PrefixLen(s, WhiteSpace) + 1)
        signed == t # <<>> /\ Head(t) \in {"-", "+"}
        u == IF signed THEN Tail(t) ELSE t
        n == PrefixLen(u, Digits)
        v == DigitsValue(SubSeq(u, 1, n))
    IN  IF n = 0 THEN NaN
        ELSE IF signed /\ Head(t) = "-" THEN 0 - v ELSE v

\* parseFloat(s) for decimal notation without exponent, as a number of
\* thousandths (inputs of the model have at most three fractional digits);
\* NaN when the string does not start with a number.
ParseFloat(s) ==
    LET t == Drop(s, PrefixLen(s, WhiteSpace) + 1)
        signed == t # <<>> /\ Head(t) \in {"-", "+"}
        u == IF signed THEN Tail(t) ELSE t
        n == PrefixLen(u, Digits)
        rest == Drop(u, n + 1)
        hasDot == rest # <<>> /\ Head(rest) = "."
        f == IF hasDot THEN PrefixLen(Tail(rest), Digits) ELSE 0
        frac == IF hasDot THEN SubSeq(Tail(rest), 1, f) ELSE <<>>
        pad == frac \o SubSeq(<<"0", "0", "0">>, 1, 3 - Len(frac))
        v == 1000 * DigitsValue(SubSeq(u, 1, n)) + DigitsValue(pad)
    IN  IF n = 0 /\ f = 0 THEN NaN
        ELSE IF signed /\ Head(t) = "-" THEN 0 - v ELSE v

\* Number.prototype.toString of an integer
RECURSIVE NatToString(_)
NatToString(n) ==
    IF n < 10 THEN <<DigitChar(n)>>
    ELSE NatToString(n \div 10) \o <<DigitChar(n % 10)>>

NumberToString(x) ==
    IF IsNaN(x) THEN <<"N", "a", "N">>
    ELSE IF x < 0 THEN <<"-">> \o NatToString(0 - x) ELSE NatToString(x)

\* new Date(d).getTime() in days since the epoch: ISO dates of the inputs
\* are converted, any other string gives an Invalid Date (time value NaN).
\* The constructor never throws.
NewDate(d) ==
    CASE d = "2020-01-01T00:00:00Z" -> 18262
      [] d = "2021-06-15T00:00:00Z" -> 18793
      [] OTHER -> NaN

\* String.prototype.toLowerCase on the letters of the inputs
LowerChar(c) ==
    CASE c = "A" -> "a" [] c = "B" -> "b" [] c = "C" -> "c" [] c = "D" -> "d"
      [] c = "E" -> "e" [] c = "F" -> "f" [] c = "G" -> "g" [] c = "H" -> "h"
      [] c = "I" -> "i" [] c = "J" -> "j" [] c = "K" -> "k" [] c = "L" -> "l"
      [] c = "M" -> "m" [] c = "N" -> "n" [] c = "O" -> "o" [] c = "P" -> "p"
      [] c = "Q" -> "q" [] c = "R" -> "r" [] c = "S" -> "s" [] c = "T" -> "t"
      [] c = "U" -> "u" [] c = "V" -> "v" [] c = "W" -> "w" [] c = "X" -> "x"
      [] c = "Y" -> "y" [] c = "Z" -> "z"
      [] OTHER -> c

ToLowerCase(s) == [i \in 1..Len(s) |-> LowerChar(s[i])]

\* Array.prototype.join
RECURSIVE Join(_, _)
Join(parts, sep) ==
    IF parts = <<>> THEN <<>>
    ELSE IF Len(parts) = 1 THEN parts[1]
    ELSE parts[1] \o sep \o Join(Tail(parts), sep)

\* all sequences over S of length at most n
SeqUpTo(S, n) == UNION {[1..k -> S] : k \in 0..n}

----------------------------------------------------------------------------
(* Map<K, V> with insertion order *)

EmptyMap == [keys |-> <<>>, vals |-> <<>>]

MapIndex(m, k) ==
    IF \E i \in 1..Len(m.keys) : m.keys[i] = k
    THEN CHOOSE i \in 1..Len(m.keys) : m.keys[i] = k
    ELSE 0

MapHas(m, k) == MapIndex(m, k) # 0

MapGet(m, k) == m.vals[MapIndex(m, k)]

MapSet(m, k, v) ==
    IF MapHas(m, k)
    THEN [m EXCEPT !.vals[MapIndex(m, k)] = v]
    ELSE [keys |-> Append(m.keys, k), vals |-> Append(m.vals, v)]

----------------------------------------------------------------------------
(* Raw rows.  JSON.parse yields objects or null; isNull marks an array       *)
(* element that is null, on which every property access throws a TypeError. *)

\* ImportError pushed by the catch clauses
ImportError(type, id, message, raw) ==
    [entity_type |-> type, entity_id |-> id, error_message |-> message,
     raw_data |-> raw]

\* A result of a step: either it threw, or it returned value; errors is
\* this.errors when the step ended.
Returned(value, errs) == [threw |-> FALSE, value |-> value, errors |-> errs]

Threw(errs) == [threw |-> TRUE, value |-> <<>>, errors |-> errs]

----------------------------------------------------------------------------
(* extractUsers *)

\* one iteration of the two forEach loops: has-then-set on usersMap
AddUser(usersMap, username) ==
    IF username # "" /\ ~MapHas(usersMap, username)
    THEN MapSet(usersMap, username,
                [user_id |-> Len(usersMap.keys) + 1, username |-> username])
    ELSE usersMap

RECURSIVE AddUsers(_, _)
AddUsers(usersMap, rows) ==
    IF rows = <<>> THEN usersMap
    ELSE AddUsers(AddUser(usersMap, Head(rows).username), Tail(rows))

\* extractUsers has no try: reading username of a null row throws
extractUsers(rawTunes, rawSets, errs) ==
    IF \E i \in 1..Len(rawTunes) : rawTunes[i].isNull THEN Threw(errs)
    ELSE IF \E i \in 1..Len(rawSets) : rawSets[i].isNull THEN Threw(errs)
    ELSE Returned(AddUsers(AddUsers(EmptyMap, rawTunes), rawSets).vals, errs)

----------------------------------------------------------------------------
(* normalizeTunes *)

\* aliases.forEach: the alias strings of each tune_id string, in input order
RECURSIVE BuildAliasesMap(_, _)
BuildAliasesMap(aliasesMap, aliases) ==
    IF aliases = <<>> THEN aliasesMap
    ELSE LET alias == Head(aliases)
             m == IF MapHas(aliasesMap, alias.tune_id) THEN aliasesMap
                  ELSE MapSet(aliasesMap, alias.tune_id, <<>>)
         IN  BuildAliasesMap(
                 MapSet(m, alias.tune_id,
                        Append(MapGet(m, alias.tune_id), alias.alias)),
                 Tail(aliases))

\* the NormalizedTune created for the first row of a tune_id string
NewNormalizedTune(tune, aliasesMap) ==
    [tune_id |-> ParseInt(tune.tune_id),
     canonical_name |-> tune.name,
     type |-> tune.type,
     meter |-> tune.meter,
     mode |-> tune.mode,
     created_at |-> NewDate(tune.date),
     aliases |-> IF MapHas(aliasesMap, tune.tune_id)
                 THEN MapGet(aliasesMap, tune.tune_id) ELSE <<>>,
     popularity_score |-> 0,
     settings |-> <<>>,
     search_text |-> <<>>]

\* NewNormalizedSetting with the back-reference parsed from the wrong
\* column (setting_id instead of tune_id)
NewNormalizedSettingWrongColumn(tune) ==
    [setting_id |-> ParseInt(tune.setting_id),
     tune_id |-> ParseInt(tune.setting_id),
     abc_notation |-> tune.abc,
     contributor_username |-> tune.username,
     created_at |-> NewDate(tune.date),
     musical_features |-> <<>>]

\* the NormalizedSetting pushed for a row; musical_features is absent (<<>>)
NewNormalizedSetting(tune) ==
    [setting_id |-> ParseInt(tune.setting_id),
     tune_id |-> ParseInt(tune.tune_id),
     abc_notation |-> tune.abc,
     contributor_username |-> tune.username,
     created_at |-> NewDate(tune.date),
     musical_features |-> <<>>]

\* TuneRowBody with deduplication: a row whose setting_id the tune already
\* holds is not pushed
TuneRowBodyDedup(tunesMap, aliasesMap, tune) ==
    LET m == IF MapHas(tunesMap, tune.tune_id) THEN tunesMap
             ELSE MapSet(tunesMap, tune.tune_id,
                         NewNormalizedTune(tune, aliasesMap))
        normalizedTune == MapGet(m, tune.tune_id)
        held == \E j \in 1..Len(normalizedTune.settings) :
                    normalizedTune.settings[j].setting_id =
                        ParseInt(tune.setting_id)
    IN  IF held THEN m
        ELSE MapSet(m, tune.tune_id,
                 [normalizedTune EXCEPT
                     !.settings = Append(@, NewNormalizedSetting(tune))])

\* the try block of one row: has / set, then get / push.  parseInt and
\* new Date return NaN and Invalid Date, they do not throw.
TuneRowBody(tunesMap, aliasesMap, tune) ==
    LET m == IF MapHas(tunesMap, tune.tune_id) THEN tunesMap
             ELSE MapSet(tunesMap, tune.tune_id,
                         NewNormalizedTune(tune, aliasesMap))
        normalizedTune == MapGet(m, tune.tune_id)
    IN  MapSet(m, tune.tune_id,
               [normalizedTune EXCEPT
                   !.settings = Append(@, NewNormalizedSetting(tune))])

\* A property access on a null array element throws a TypeError; no other
\* operation of the try blocks throws (parseInt, parseFloat, new Date and
\* the template literals convert whatever they are given).
BodyThrows(row) == row.isNull

\* The catch clauses read the id of the row they failed on (tune.tune_id,
\* setEntry.tuneset, recording.id, session.id) while building the
\* ImportError, which throws again when the row is null.
HandlerThrows(row) == row.isNull

\* rawTunes.forEach with its try / catch.  acc = [threw, map, errors].
RECURSIVE TuneRows(_, _, _)
TuneRows(acc, aliasesMap, rows) ==
    IF rows = <<>> \/ acc.threw THEN acc
    ELSE LET tune == Head(rows)
         IN  IF ~BodyThrows(tune)
             THEN TuneRows([acc EXCEPT !.map =
                               TuneRowBody(acc.map, aliasesMap, tune)],
                           aliasesMap, Tail(rows))
             ELSE IF HandlerThrows(tune)
             THEN [acc EXCEPT !.threw = TRUE]
             ELSE TuneRows([acc EXCEPT !.errors = Append(@,
                               ImportError("tune", tune.tune_id,
                                   "Failed to normalize tune: TypeError",
                                   tune))],
                           aliasesMap, Tail(rows))

normalizeTunes(rawTunes, aliases, errs) ==
    IF \E i \in 1..Len(aliases) : aliases[i].isNull THEN Threw(errs)
    ELSE LET aliasesMap == BuildAliasesMap(EmptyMap, aliases)
             acc == TuneRows([threw |-> FALSE, map |-> EmptyMap,
                              errors |-> errs], aliasesMap, rawTunes)
         IN  IF acc.threw THEN Threw(acc.errors)
             ELSE Returned(acc.map.vals, acc.errors)

----------------------------------------------------------------------------
(* normalizeSets *)

NewNormalizedTuneSet(setEntry) ==
    [set_id |-> ParseInt(setEntry.tuneset),
     creator_username |-> setEntry.username,
     created_at |-> NewDate(setEntry.date),
     is_public |-> TRUE,
     compositions |-> <<>>]

NewSetComposition(setEntry) ==
    [set_id |-> ParseInt(setEntry.tuneset),
     tune_id |-> ParseInt(setEntry.tune_id),
     setting_id |-> ParseInt(setEntry.setting_id),
     position_in_set |-> ParseInt(setEntry.settingorder),
     tune_name |-> setEntry.name,
     tune_type |-> setEntry.type]

SetRowBody(setsMap, setEntry) ==
    LET m == IF MapHas(setsMap, setEntry.tuneset) THEN setsMap
             ELSE MapSet(setsMap, setEntry.tuneset,
                         NewNormalizedTuneSet(setEntry))
        normalizedSet == MapGet(m, setEntry.tuneset)
    IN  MapSet(m, setEntry.tuneset,
               [normalizedSet EXCEPT
                   !.compositions = Append(@, NewSetComposition(setEntry))])

RECURSIVE SetRows(_, _)
SetRows(acc, rows) ==
    IF rows = <<>> \/ acc.threw THEN acc
    ELSE LET setEntry == Head(rows)
         IN  IF ~BodyThrows(setEntry)
             THEN SetRows([acc EXCEPT !.map = SetRowBody(acc.map, setEntry)],
                          Tail(rows))
             ELSE IF HandlerThrows(setEntry)
             THEN [acc EXCEPT !.threw = TRUE]
             ELSE SetRows([acc EXCEPT !.errors = Append(@,
                              ImportError("set", setEntry.tuneset,
                                  "Failed to normalize set: TypeError",
                                  setEntry))],
                          Tail(rows))

\* the comparator (a, b) => a.position_in_set - b.position_in_set
ComparePosition(a, b) == Minus(a.position_in_set, b.position_in_set)

\* insertion of x behind every element that does not compare greater
RECURSIVE InsertSorted(_, _)
InsertSorted(sorted, x) ==
    IF sorted = <<>> THEN <<x>>
    ELSE IF ComparePosition(Head(sorted), x) > 0 THEN <<x>> \o sorted
    ELSE <<Head(sorted)>> \o InsertSorted(Tail(sorted), x)

\* the stable ascending sort Array.prototype.sort performs with a
\* consistent comparator
RECURSIVE StableSort(_)
StableSort(comps) ==
    IF comps = <<>> THEN <<>>
    ELSE InsertSorted(StableSort(SubSeq(comps, 1, Len(comps) - 1)),
                      comps[Len(comps)])

Permutations(s) ==
    {[i \in 1..Len(s) |-> s[p[i]]] :
        p \in {q \in [1..Len(s) -> 1..Len(s)] :
                  \A i, j \in 1..Len(s) : q[i] = q[j] => i = j}}

\* compositions.sort(comparator).  The comparator returns NaN as soon as a
\* position is NaN, which the sort reads as 0 (equal).  With a NaN position
\* and two different numeric positions it is not a consistent comparison
\* function (equality is not transitive) and the order of the result is
\* implementation-defined: any permutation.  Otherwise the sort is stable.
SortOutcomes(comps) ==
    IF /\ \E i \in 1..Len(comps) : IsNaN(comps[i].position_in_set)
       /\ \E i, j \in 1..Len(comps) :
              /\ ~IsNaN(comps[i].position_in_set)
              /\ ~IsNaN(comps[j].position_in_set)
              /\ comps[i].position_in_set # comps[j].position_in_set
    THEN Permutations(comps)
    ELSE {StableSort(comps)}

\* setsMap.forEach(set => set.compositions.sort(...)): every outcome
RECURSIVE SortAllSets(_)
SortAllSets(setSeq) ==
    IF setSeq = <<>> THEN {<<>>}
    ELSE {<<[Head(setSeq) EXCEPT !.compositions = c]>> \o rest :
             c \in SortOutcomes(Head(setSeq).compositions),
             rest \in SortAllSets(Tail(setSeq))}

\* the set of results normalizeSets can produce
normalizeSets(rawSets, errs) ==
    LET acc == SetRows([threw |-> FALSE, map |-> EmptyMap, errors |-> errs],
                       rawSets)
    IN  IF acc.threw THEN {Threw(acc.errors)}
        ELSE {Returned(v, acc.errors) : v \in SortAllSets(acc.map.vals)}

----------------------------------------------------------------------------
(* normalizeRecordings *)

\* ToString in a template literal
TemplateString(v) ==
    IF v = Undefined THEN <<"u", "n", "d", "e", "f", "i", "n", "e", "d">>
    ELSE v

\* ToBoolean of a string property: the empty string and undefined are falsy
Truthy(v) == v # <<>> /\ v # Undefined

\* tracks.find(t => t.track_number === n): index of the first match, or 0
FindTrack(tracks, n) ==
    IF \E i \in 1..Len(tracks) : StrictEq(tracks[i].track_number, n)
    THEN CHOOSE i \in 1..Len(tracks) :
            /\ StrictEq(tracks[i].track_number, n)
            /\ \A j \in 1..(i - 1) : ~StrictEq(tracks[j].track_number, n)
    ELSE 0

NewRecordingTrack(recording) ==
    [track_id |-> ParseInt(TemplateString(recording.id)
                           \o TemplateString(recording.track)),
     track_number |-> ParseInt(recording.track),
     track_name |-> <<"T", "r", "a", "c", "k", " ">>
                    \o TemplateString(recording.track),
     tunes |-> <<>>]

NewTrackTune(recording) ==
    [tune_id |-> ParseInt(recording.tune_id),
     tune_name |-> recording.tune,
     position_in_track |-> ParseInt(recording.number)]

\* a variant that numbers a new artist with the counter after its increment
RecordingRowBodyPreIncrement(acc, recording) ==
    LET newArtist == ~MapHas(acc.artists, recording.artist)
        artists == IF newArtist
                   THEN MapSet(acc.artists, recording.artist,
                               [artist_id |-> acc.artistId + 1,
                                artist_name |-> recording.artist])
                   ELSE acc.artists
        artistId == IF newArtist THEN acc.artistId + 1 ELSE acc.artistId
        recordingKey == TemplateString(recording.artist) \o <<":">>
                        \o TemplateString(recording.recording)
        m == IF MapHas(acc.map, recordingKey) THEN acc.map
             ELSE MapSet(acc.map, recordingKey,
                         [recording_id |-> ParseInt(recording.id),
                          album_name |-> recording.recording,
                          artist_name |-> recording.artist,
                          artist_id |-> MapGet(artists, recording.artist).artist_id,
                          tracks |-> <<>>])
        normalizedRecording == MapGet(m, recordingKey)
        found == FindTrack(normalizedRecording.tracks,
                           ParseInt(recording.track))
        tracks == IF found = 0
                  THEN Append(normalizedRecording.tracks,
                              NewRecordingTrack(recording))
                  ELSE normalizedRecording.tracks
        t == IF found = 0 THEN Len(tracks) ELSE found
        tracks2 == IF Truthy(recording.tune_id)
                   THEN [tracks EXCEPT ![t].tunes =
                            Append(@, NewTrackTune(recording))]
                   ELSE tracks
    IN  [acc EXCEPT !.artists = artists,
                    !.artistId = artistId,
                    !.map = MapSet(m, recordingKey,
                               [normalizedRecording EXCEPT !.tracks = tracks2])]

\* the try block of one row; acc = [threw, artists, map, artistId, errors]
RecordingRowBody(acc, recording) ==
    LET newArtist == ~MapHas(acc.artists, recording.artist)
        artists == IF newArtist
                   THEN MapSet(acc.artists, recording.artist,
                               [artist_id |-> acc.artistId,
                                artist_name |-> recording.artist])
                   ELSE acc.artists
        artistId == IF newArtist THEN acc.artistId + 1 ELSE acc.artistId
        recordingKey == TemplateString(recording.artist) \o <<":">>
                        \o TemplateString(recording.recording)
        m == IF MapHas(acc.map, recordingKey) THEN acc.map
             ELSE MapSet(acc.map, recordingKey,
                         [recording_id |-> ParseInt(recording.id),
                          album_name |-> recording.recording,
                          artist_name |-> recording.artist,
                          artist_id |-> MapGet(artists, recording.artist).artist_id,
                          tracks |-> <<>>])
        normalizedRecording == MapGet(m, recordingKey)
        found == FindTrack(normalizedRecording.tracks,
                           ParseInt(recording.track))
        tracks == IF found = 0
                  THEN Append(normalizedRecording.tracks,
                              NewRecordingTrack(recording))
                  ELSE normalizedRecording.tracks
        t == IF found = 0 THEN Len(tracks) ELSE found
        tracks2 == IF Truthy(recording.tune_id)
                   THEN [tracks EXCEPT ![t].tunes =
                            Append(@, NewTrackTune(recording))]
                   ELSE tracks
    IN  [acc EXCEPT !.artists = artists,
                    !.artistId = artistId,
                    !.map = MapSet(m, recordingKey,
                               [normalizedRecording EXCEPT !.tracks = tracks2])]

RECURSIVE RecordingRows(_, _)
RecordingRows(acc, rows) ==
    IF rows = <<>> \/ acc.threw THEN acc
    ELSE LET recording == Head(rows)
         IN  IF ~BodyThrows(recording)
             THEN RecordingRows(RecordingRowBody(acc, recording), Tail(rows))
             ELSE IF HandlerThrows(recording)
             THEN [acc EXCEPT !.threw = TRUE]
             ELSE RecordingRows([acc EXCEPT !.errors = Append(@,
                                    ImportError("recording", recording.id,
                                        "Failed to normalize recording: TypeError",
                                        recording))],
                                Tail(rows))

normalizeRecordings(rawRecordings, errs) ==
    LET acc == RecordingRows([threw |-> FALSE, artists |-> EmptyMap,
                              map |-> EmptyMap, artistId |-> 1,
                              errors |-> errs], rawRecordings)
    IN  IF acc.threw THEN Threw(acc.errors)
        ELSE Returned(acc.map.vals, acc.errors)

----------------------------------------------------------------------------
(* normalizeSessions *)

\* s.replace(/, ,/g, ','): every match, left to right, without overlap
RECURSIVE ReplaceCommaSpaceComma(_)
ReplaceCommaSpaceComma(s) ==
    IF s = <<>> THEN <<>>
    ELSE IF Len(s) >= 3 /\ SubSeq(s, 1, 3) = <<",", " ", ",">>
    THEN <<",">> \o ReplaceCommaSpaceComma(Drop(s, 4))
    ELSE <<Head(s)>> \o ReplaceCommaSpaceComma(Tail(s))

FullAddress(session) ==
    ReplaceCommaSpaceComma(
        TemplateString(session.address) \o <<",", " ">>
        \o TemplateString(session.town) \o <<",", " ">>
        \o TemplateString(session.area) \o <<",", " ">>
        \o TemplateString(session.country))

\* the object returned by the try block of the map callback
NewNormalizedSession(session) ==
    [session_id |-> ParseInt(session.id),
     venue_name |-> session.name,
     full_address |-> FullAddress(session),
     location |-> [town |-> session.town,
                   area |-> session.area,
                   country |-> session.country,
                   coordinates |->
                       [latitude |-> ParseFloat(session.latitude),
                        longitude |-> ParseFloat(session.longitude)]],
     created_at |-> NewDate(session.date),
     is_active |-> TRUE,
     search_text |-> <<>>]

\* rawSessions.map(...).filter(session => session !== null);
\* acc = [threw, out, errors], out holding the non-null results
RECURSIVE SessionRows(_, _)
SessionRows(acc, rows) ==
    IF rows = <<>> \/ acc.threw THEN acc
    ELSE LET session == Head(rows)
         IN  IF ~BodyThrows(session)
             THEN SessionRows([acc EXCEPT !.out =
                                  Append(@, NewNormalizedSession(session))],
                              Tail(rows))
             ELSE IF HandlerThrows(session)
             THEN [acc EXCEPT !.threw = TRUE]
             ELSE SessionRows([acc EXCEPT !.errors = Append(@,
                                  ImportError("session", session.id,
                                      "Failed to normalize session: TypeError",
                                      session))],
                              Tail(rows))

normalizeSessions(rawSessions, errs) ==
    LET acc == SessionRows([threw |-> FALSE, out |-> <<>>, errors |-> errs],
                           rawSessions)
    IN  IF acc.threw THEN Threw(acc.errors)
        ELSE Returned(acc.out, acc.errors)

----------------------------------------------------------------------------
(* extractMusicalFeatures and its helpers *)

NoteLetters == {"A", "B", "C", "D", "E", "F", "G",
                "a", "b", "c", "d", "e", "f", "g"}

\* abc.split('\n')
RECURSIVE Split(_)
Split(s) ==
    IF \E i \in 1..Len(s) : s[i] = "\n"
    THEN LET i == CHOOSE k \in 1..Len(s) :
                     s[k] = "\n" /\ \A j \in 1..(k - 1) : s[j] # "\n"
         IN  <<SubSeq(s, 1, i - 1)>> \o Split(Drop(s, i + 1))
    ELSE <<s>>

StartsWith(s, prefix) ==
    Len(s) >= Len(prefix) /\ SubSeq(s, 1, Len(prefix)) = prefix

\* line.trim().length > 0
TrimNonEmpty(line) == \E i \in 1..Len(line) : line[i] \notin WhiteSpace

\* a variant of the line filter that knows the key line only
IsMusicLineKeyOnly(line) ==
    /\ ~StartsWith(line, <<"K", ":">>)
    /\ TrimNonEmpty(line)

IsMusicLine(line) ==
    /\ ~StartsWith(line, <<"K", ":">>)
    /\ ~StartsWith(line, <<"M", ":">>)
    /\ ~StartsWith(line, <<"L", ":">>)
    /\ TrimNonEmpty(line)

\* musicString.match(/[A-Ga-g][',]*[0-9/]*/g) || []
RECURSIVE MatchNotes(_)
MatchNotes(s) ==
    IF s = <<>> THEN <<>>
    ELSE IF Head(s) \in NoteLetters
    THEN LET octave == PrefixLen(Tail(s), {"'", ","})
             duration == PrefixLen(Drop(s, 2 + octave), Digits \cup {"/"})
             n == 1 + octave + duration
         IN  <<SubSeq(s, 1, n)>> \o MatchNotes(Drop(s, n + 1))
    ELSE MatchNotes(Tail(s))

\* extractNotesFromABC without the filter on header lines
extractNotesFromABCUnfiltered(abc) ==
    MatchNotes(Join(Split(abc), <<>>))

extractNotesFromABC(abc) ==
    MatchNotes(Join(SelectSeq(Split(abc), IsMusicLine), <<>>))

\* a table without the upper octave: a lowercase letter has the value of
\* its uppercase letter
noteValuesNoOctave(letter) ==
    CASE letter \in {"C", "c"} -> 0 [] letter \in {"D", "d"} -> 2
      [] letter \in {"E", "e"} -> 4 [] letter \in {"F", "f"} -> 5
      [] letter \in {"G", "g"} -> 7 [] letter \in {"A", "a"} -> 9
      [] letter \in {"B", "b"} -> 11
      [] OTHER -> 0

\* noteValues[letter] || 0
noteValues(letter) ==
    CASE letter = "C" -> 0 [] letter = "D" -> 2 [] letter = "E" -> 4
      [] letter = "F" -> 5 [] letter = "G" -> 7 [] letter = "A" -> 9
      [] letter = "B" -> 11 [] letter = "c" -> 12 [] letter = "d" -> 14
      [] letter = "e" -> 16 [] letter = "f" -> 17 [] letter = "g" -> 19
      [] letter = "a" -> 21 [] letter = "b" -> 23
      [] OTHER -> 0

calculateIntervals(notes) ==
    [i \in 1..(Len(notes) - 1) |->
        noteValues(notes[i + 1][1]) - noteValues(notes[i][1])]

\* calculateMelodicContour pushing the difference itself, without Math.sign
calculateMelodicContourNoSign(notes) ==
    [i \in 1..(Len(notes) - 1) |->
        noteValues(notes[i + 1][1]) - noteValues(notes[i][1])]

calculateMelodicContour(notes) ==
    [i \in 1..(Len(notes) - 1) |->
        Sign(noteValues(notes[i + 1][1]) - noteValues(notes[i][1]))]

KeyModes == {<<"m", "a", "j">>, <<"m", "i", "n">>, <<"d", "o", "r">>,
             <<"m", "i", "x">>, <<"l", "y", "d">>, <<"p", "h", "r">>,
             <<"l", "o", "c">>}

\* the capture of /K:\s*([A-G][#b]?(?:maj|min|dor|mix|lyd|phr|loc)?)/
\* matched at position p, or <<>> when it does not match there
KeyMatchAt(s, p) ==
    IF ~StartsWith(Drop(s, p), <<"K", ":">>) THEN <<>>
    ELSE LET q == p + 2 + PrefixLen(Drop(s, p + 2), WhiteSpace)
             r == IF q + 1 <= Len(s) /\ s[q + 1] \in {"#", "b"}
                  THEN q + 1 ELSE q
             e == IF r + 3 <= Len(s) /\ SubSeq(s, r + 1, r + 3) \in KeyModes
                  THEN r + 3 ELSE r
         IN  IF q <= Len(s) /\ s[q] \in {"A", "B", "C", "D", "E", "F", "G"}
             THEN SubSeq(s, q, e)
             ELSE <<>>

\* a variant that searches the key in the music lines, the header lines
\* being filtered out as for the notes
extractKeySignatureFiltered(abc) ==
    LET music == Join(SelectSeq(Split(abc), IsMusicLine), <<>>)
    IN  IF \E p \in 1..Len(music) : KeyMatchAt(music, p) # <<>>
        THEN KeyMatchAt(music, CHOOSE p \in 1..Len(music) :
                            /\ KeyMatchAt(music, p) # <<>>
                            /\ \A j \in 1..(p - 1) : KeyMatchAt(music, j) = <<>>)
        ELSE <<>>

\* keyMatch ? keyMatch[1] : null, null being <<>> (the capture is never empty)
extractKeySignature(abc) ==
    IF \E p \in 1..Len(abc) : KeyMatchAt(abc, p) # <<>>
    THEN KeyMatchAt(abc, CHOOSE p \in 1..Len(abc) :
                        /\ KeyMatchAt(abc, p) # <<>>
                        /\ \A j \in 1..(p - 1) : KeyMatchAt(abc, j) = <<>>)
    ELSE <<>>

\* the capture of /M:\s*(\d+\/\d+)/ matched at position p, or <<>>
TimeMatchAt(s, p) ==
    IF ~StartsWith(Drop(s, p), <<"M", ":">>) THEN <<>>
    ELSE LET q == p + 2 + PrefixLen(Drop(s, p + 2), WhiteSpace)
             n == PrefixLen(Drop(s, q), Digits)
             d == PrefixLen(Drop(s, q + n + 1), Digits)
         IN  IF n > 0 /\ q + n <= Len(s) /\ s[q + n] = "/" /\ d > 0
             THEN SubSeq(s, q, q + n + d)
             ELSE <<>>

extractTimeSignature(abc) ==
    IF \E p \in 1..Len(abc) : TimeMatchAt(abc, p) # <<>>
    THEN TimeMatchAt(abc, CHOOSE p \in 1..Len(abc) :
                         /\ TimeMatchAt(abc, p) # <<>>
                         /\ \A j \in 1..(p - 1) : TimeMatchAt(abc, j) = <<>>)
    ELSE <<>>

\* abc.replace(/[A-Ga-g]/g, 'X').substring(0, 32)
extractRhythmicPattern(abc) ==
    SubSeq([i \in 1..Len(abc) |->
               IF abc[i] \in NoteLetters THEN "X" ELSE abc[i]],
           1, IF Len(abc) < 32 THEN Len(abc) ELSE 32)

\* abc.split is not a function when the row has no abc property
ExtractThrows(abcNotation) == abcNotation = Undefined

extractMusicalFeatures(abcNotation) ==
    LET notes == extractNotesFromABC(abcNotation)
        intervals == calculateIntervals(notes)
        contour == calculateMelodicContour(notes)
        key == extractKeySignature(abcNotation)
        time == extractTimeSignature(abcNotation)
    IN  [key_signature |-> IF key # <<>> THEN key ELSE <<"C">>,
         time_signature |-> IF time # <<>> THEN time ELSE <<"4", "/", "4">>,
         note_count |-> Len(notes),
         melodic_contour |-> contour,
         intervals |-> intervals,
         rhythmic_pattern |-> extractRhythmicPattern(abcNotation)]

----------------------------------------------------------------------------
(* generateMusicalFeatures *)

\* the inner loop over tune.settings; acc = [settings, errors]
RECURSIVE FeatureSettings(_, _, _)
FeatureSettings(acc, tune, rest) ==
    IF rest = <<>> THEN acc
    ELSE LET setting == Head(rest)
         IN  IF ~ExtractThrows(setting.abc_notation)
             THEN FeatureSettings(
                      [acc EXCEPT !.settings = Append(@,
                          [setting EXCEPT !.musical_features =
                              <<extractMusicalFeatures(setting.abc_notation)>>])],
                      tune, Tail(rest))
             ELSE FeatureSettings(
                      [settings |-> Append(acc.settings, setting),
                       errors |-> Append(acc.errors,
                           ImportError("tune", NumberToString(tune.tune_id),
                               "Failed to extract musical features: TypeError",
                               setting))],
                      tune, Tail(rest))

\* the outer loop over tunes; acc = [tunes, errors]
RECURSIVE FeatureTunes(_, _)
FeatureTunes(acc, rest) ==
    IF rest = <<>> THEN acc
    ELSE LET tune == Head(rest)
             r == FeatureSettings([settings |-> <<>>, errors |-> acc.errors],
                                  tune, tune.settings)
         IN  FeatureTunes([tunes |-> Append(acc.tunes,
                               [tune EXCEPT !.settings = r.settings]),
                           errors |-> r.errors],
                          Tail(rest))

\* a variant that takes the settings whose extraction failed out of their
\* tunes
generateMusicalFeaturesDropFailed(tuneSeq, errs) ==
    LET r == FeatureTunes([tunes |-> <<>>, errors |-> errs], tuneSeq)
    IN  Returned([k \in 1..Len(r.tunes) |->
                     [r.tunes[k] EXCEPT !.settings =
                         SelectSeq(@, LAMBDA st : st.musical_features # <<>>)]],
                 r.errors)

generateMusicalFeatures(tuneSeq, errs) ==
    LET r == FeatureTunes([tunes |-> <<>>, errors |-> errs], tuneSeq)
    IN  Returned(r.tunes, r.errors)

----------------------------------------------------------------------------
(* generateSearchVectors *)

\* Array.prototype.join writes undefined elements as the empty string
JoinElement(v) == IF v = Undefined THEN <<>> ELSE v

SearchText(parts) ==
    ToLowerCase(Join([i \in 1..Len(parts) |-> JoinElement(parts[i])], <<" ">>))

\* a variant that leaves the aliases out of the text
TuneSearchTextNoAliases(tune) ==
    SearchText(<<tune.canonical_name, tune.type, tune.mode>>)

TuneSearchText(tune) ==
    SearchText(<<tune.canonical_name>> \o tune.aliases
               \o <<tune.type, tune.mode>>)

SessionSearchText(session) ==
    SearchText(<<session.venue_name, session.location.town,
                 session.location.area, session.location.country>>)

----------------------------------------------------------------------------
(* Inputs: the rows loadRawData can read *)

Str1 == <<"1">>
Str01 == <<"0", "1">>
Str2 == <<"2">>
Str5 == <<"5">>
Str6 == <<"6">>
Str7 == <<"7">>
Str10 == <<"1", "0">>
Str11 == <<"1", "1">>
StrAbc == <<"a", "b", "c">>
StrX == <<"x">>
StrReel == <<"r", "e", "e", "l">>
StrJig == <<"j", "i", "g">>
StrGmajor == <<"G", "m", "a", "j", "o", "r">>
StrCooleys == <<"C", "o", "o", "l", "e", "y", "'", "s">>
StrTarbolton == <<"T", "a", "r", "b", "o", "l", "t", "o", "n">>
StrLuttrell == <<"L", "u", "t", "t", "r", "e", "l", "l">>
StrJoeCooley == <<"J", "o", "e", " ", "C">>
StrAltan == <<"A", "l", "t", "a", "n">>
StrDervish == <<"D", "e", "r", "v", "i", "s", "h">>
StrLive == <<"L", "i", "v", "e">>
StrIsland == <<"I", "s", "l", "a", "n", "d">>
StrPub == <<"T", "h", "e", " ", "P", "u", "b">>
StrMainSt == <<"1", " ", "M", "a", "i", "n">>
StrDublin == <<"D", "u", "b", "l", "i", "n">>
StrLeinster == <<"L", "e", "i", "n">>
StrIreland == <<"I", "r", "e">>
StrLat == <<"5", "3", ".", "3", "5">>
StrLon == <<"-", "6", ".", "2", "6">>
StrNotANumber == <<"n", "o", "t", "-", "a", "-", "n", "u", "m", "b", "e", "r">>
StrTune == <<"G", "2", "\n", "A", "B">>

\* the notation of the spec's scenario: "K:Gmaj\nM:6/8\nABC"
ExampleAbc == <<"K", ":", "G", "m", "a", "j", "\n",
                "M", ":", "6", "/", "8", "\n", "A", "B", "C">>

ValidDate == "2020-01-01T00:00:00Z"
OtherDate == "2021-06-15T00:00:00Z"
BadDate == "not a date"

\* an array element that is null
NullRow == [isNull |-> TRUE]

TuneRow(tune_id, setting_id, abc, date) ==
    [isNull |-> FALSE, tune_id |-> tune_id, setting_id |-> setting_id,
     name |-> IF setting_id = Str11 THEN StrTarbolton ELSE StrCooleys,
     type |-> IF setting_id = Str11 THEN StrJig ELSE StrReel,
     meter |-> "4/4", mode |-> StrGmajor, abc |-> abc, date |-> date,
     username |-> IF setting_id = Str11 THEN "bob" ELSE "alice"]

ValidTuneRows ==
    {TuneRow(Str1, Str10, StrTune, ValidDate),
     TuneRow(Str1, Str11, StrTune, OtherDate),
     TuneRow(Str01, Str10, StrTune, ValidDate),
     TuneRow(Str2, Str11, StrTune, OtherDate)}

MalformedTuneRows ==
    {TuneRow(StrAbc, Str10, StrTune, ValidDate),
     TuneRow(Str1, StrX, StrTune, ValidDate),
     TuneRow(Str1, Str10, StrTune, BadDate)}

AliasRow(tune_id, alias) ==
    [isNull |-> FALSE, tune_id |-> tune_id, alias |-> alias,
     name |-> StrCooleys]

AliasRowSet ==
    {AliasRow(t, a) : t \in {Str1, Str01, StrAbc},
                      a \in {StrLuttrell, StrJoeCooley}}

SetRow(tuneset, settingorder) ==
    [isNull |-> FALSE, tuneset |-> tuneset, date |-> ValidDate,
     member_id |-> Str7, username |-> "carol",
     settingorder |-> settingorder,
     name |-> IF settingorder = Str1 THEN StrCooleys ELSE StrTarbolton,
     tune_id |-> IF settingorder = Str1 THEN Str1 ELSE Str2,
     setting_id |-> Str10, type |-> StrReel, meter |-> "4/4",
     mode |-> StrGmajor, abc |-> StrTune]

SetRowSet ==
    {SetRow(ts, o) : ts \in {Str5, Str6},
                     o \in {Str1, Str2, <<"3">>, StrX}}

\* four rows of one set: two rows at position 1 that differ in their
\* setting, a row at position 2 and a row whose position is not a number
SortRows ==
    <<SetRow(Str5, Str1), [SetRow(Str5, Str1) EXCEPT !.setting_id = Str11],
      SetRow(Str5, Str2), SetRow(Str5, StrX)>>

RecordingRow(id, artist, recording, track, tune_id) ==
    [isNull |-> FALSE, id |-> id, artist |-> artist,
     recording |-> recording, track |-> track, number |-> Str1,
     tune |-> StrCooleys, tune_id |-> tune_id]

\* the tune_id is empty in the rows of track 2 of the album Island
RecordingRowSet ==
    {RecordingRow(IF a = StrAltan THEN Str5 ELSE Str6, a, r, t,
                  IF r = StrIsland /\ t = Str2 THEN <<>> ELSE Str7) :
        a \in {StrAltan, StrDervish}, r \in {StrLive, StrIsland},
        t \in {Str1, Str2}}
    \cup {RecordingRow(Str5, StrAltan, StrLive, StrX, Str7)}

SessionRow(id, address, town, latitude, longitude) ==
    [isNull |-> FALSE, id |-> id, name |-> StrPub, address |-> address,
     town |-> town, area |-> StrLeinster, country |-> StrIreland,
     latitude |-> latitude, longitude |-> longitude, date |-> ValidDate]

SessionRowSet ==
    {SessionRow(IF ad = <<>> THEN Str2 ELSE Str1, ad, tw, lat, StrLon) :
        ad \in {<<>>, StrMainSt},
        tw \in {<<>>, StrDublin}, lat \in {StrLat, StrNotANumber}}
    \cup {SessionRow(Str1, StrMainSt, StrDublin, StrLat, StrX),
          [SessionRow(Str1, StrMainSt, <<>>, StrLat, StrLon)
              EXCEPT !.area = <<>>]}

\* "M:C\nA": a meter line that holds a letter
AbcCommonTime ==
    <<"M", ":", "C", "\n", "A">>

\* "L:1/8\n \nAc": a length line and a line of white space
AbcBlankLines ==
    <<"L", ":", "1", "/", "8", "\n", " ", "\n", "A", "c">>

\* "K: Bbmin\nM: 12/8\nK:D\nM:3/4\nG,2a'/2": two key and two meter lines
AbcTwoKeys ==
    <<"K", ":", " ", "B", "b", "m", "i", "n", "\n", "M", ":", " ", "1",
      "2", "/", "8", "\n", "K", ":", "D", "\n", "M", ":", "3", "/", "4",
      "\n", "G", ",", "2", "a", "'", "/", "2">>

\* "T:abc\nK:H\nK:Edor\nM:6/x": a title line, a key line without a key and a
\* meter line without a meter
AbcTitle ==
    <<"T", ":", "a", "b", "c", "\n", "K", ":", "H", "\n", "K", ":", "E",
      "d", "o", "r", "\n", "M", ":", "6", "/", "x">>

\* "AK:F#M:2/4": key and meter inside a music line
AbcInline ==
    <<"A", "K", ":", "F", "#", "M", ":", "2", "/", "4">>

HeaderAbcInputs ==
    {AbcCommonTime, AbcBlankLines, AbcTwoKeys, AbcTitle, AbcInline}

AbcAlphabet == {"A", "c", "C", "'", "2", "\n", "K", ":"}

\* the notations of the model; Undefined is a row without an abc property
AbcInputs ==
    SeqUpTo(AbcAlphabet, MaxAbcLen) \cup {ExampleAbc, StrTune, Undefined}
    \cup HeaderAbcInputs

RawData(t, a, s, r, n) ==
    [tunes |-> t, aliases |-> a, sets |-> s, recordings |-> r, sessions |-> n]

NoData == RawData(<<>>, <<>>, <<>>, <<>>, <<>>)

SomeTunes == <<TuneRow(Str1, Str10, StrTune, ValidDate),
               TuneRow(Str2, Str11, StrTune, OtherDate)>>

SomeAliases == <<AliasRow(Str1, StrLuttrell), AliasRow(Str1, StrJoeCooley)>>

SomeSets == <<SetRow(Str5, Str2), SetRow(Str5, Str1)>>

SomeRecordings == <<RecordingRow(Str5, StrAltan, StrIsland, Str1, Str7)>>

\* two rows of one tune: the first has no abc property, the second has one
MixedAbcTunes ==
    <<TuneRow(Str1, Str10, Undefined, ValidDate),
      TuneRow(Str1, Str11, StrTune, OtherDate)>>

\* two rows of two recordings whose artist and album names hold a ":"
ColonRecordings ==
    <<RecordingRow(Str5, <<"A", ":", "B">>, <<"C">>, Str1, Str7),
      RecordingRow(Str6, <<"A">>, <<"B", ":", "C">>, Str1, Str7)>>

SomeSessions == <<SessionRow(Str1, StrMainSt, StrDublin, StrLat, StrLon)>>

\* tune lists the alias rows are matched against
AliasedTunes ==
    {<<TuneRow(Str1, Str10, StrTune, ValidDate)>>,
     <<TuneRow(Str1, Str10, StrTune, ValidDate),
       TuneRow(Str01, Str10, StrTune, ValidDate)>>,
     <<TuneRow(Str2, Str10, StrTune, ValidDate),
       TuneRow(Str1, Str11, StrTune, OtherDate)>>}

\* one array varies over all its bounded values while the others hold a
\* fixed sample; one family holds the rows of SortRows in every order; the
\* last family puts a null element in each array in turn
Inputs ==
    {RawData(t, SomeAliases, SomeSets, SomeRecordings, SomeSessions) :
        t \in SeqUpTo(ValidTuneRows \cup MalformedTuneRows, MaxTuneRows)}
    \cup {RawData(t, a, SomeSets, SomeRecordings, SomeSessions) :
        t \in AliasedTunes, a \in SeqUpTo(AliasRowSet, MaxAliasRows)}
    \cup {RawData(SomeTunes, SomeAliases, s, SomeRecordings, SomeSessions) :
        s \in SeqUpTo(SetRowSet, MaxSetRows)}
    \cup {RawData(SomeTunes, SomeAliases, s, SomeRecordings, SomeSessions) :
        s \in Permutations(SortRows)}
    \cup {RawData(SomeTunes, SomeAliases, SomeSets, r, SomeSessions) :
        r \in SeqUpTo(RecordingRowSet, MaxRecordingRows)}
    \cup {RawData(SomeTunes, SomeAliases, SomeSets, SomeRecordings, n) :
        n \in SeqUpTo(SessionRowSet, MaxSessionRows)}
    \cup {RawData(<<TuneRow(Str1, Str10, abc, ValidDate)>>, SomeAliases,
                  SomeSets, SomeRecordings, SomeSessions) :
        abc \in AbcInputs}
    \cup {RawData(SomeTunes, SomeAliases, SomeSets, ColonRecordings,
                  SomeSessions),
          RawData(MixedAbcTunes, SomeAliases, SomeSets, SomeRecordings,
                  SomeSessions)}
    \cup {RawData(Append(SomeTunes, NullRow), SomeAliases, SomeSets,
                  SomeRecordings, SomeSessions),
          RawData(SomeTunes, Append(SomeAliases, NullRow), SomeSets,
                  SomeRecordings, SomeSessions),
          RawData(SomeTunes, SomeAliases, Append(SomeSets, NullRow),
                  SomeRecordings, SomeSessions),
          RawData(SomeTunes, SomeAliases, SomeSets,
                  Append(SomeRecordings, NullRow), SomeSessions),
          RawData(SomeTunes, SomeAliases, SomeSets, SomeRecordings,
                  Append(SomeSessions, NullRow))}

\* the data directories of the later calls: the sample, and a tune row
\* without an abc property
LaterInputs ==
    {RawData(SomeTunes, SomeAliases, SomeSets, SomeRecordings, SomeSessions),
     RawData(<<TuneRow(Str1, Str10, Undefined, ValidDate)>>, SomeAliases,
             SomeSets, SomeRecordings, SomeSessions)}

----------------------------------------------------------------------------
(* processAllData *)

Init ==
    /\ pc = "loadRawData"
    /\ outcome = "pending"
    /\ rawData = NoData
    /\ users = <<>>
    /\ tunes = <<>>
    /\ sets = <<>>
    /\ recordings = <<>>
    /\ sessions = <<>>
    /\ errors = <<>>
    /\ exported = <<>>
    /\ stats = <<>>
    /\ calls = <<>>

\* catch (error) { throw error }: the promise rejects, pc keeps the step
Reject == outcome' = "rejected" /\ pc' = pc

\* the length this.errors had when the running call began: the field is
\* initialised once, with the instance, and no call empties it
ErrorsBefore == IF calls = <<>> THEN 0 ELSE calls[Len(calls)].after

\* errors: this.errors puts the array itself into the ImportStats, so the
\* object reads whatever the array holds by now
ImportStatsNow(returned) == [returned EXCEPT !.errors = errors]

\* the data directories of a call: any of Inputs for the first call of an
\* instance, one of LaterInputs for a later one
InputsOfCall == IF calls = <<>> THEN Inputs ELSE LaterInputs

\* a variant in which a file that cannot be loaded leaves its array empty
\* and the run goes on
LoadRawDataSwallowed ==
    /\ pc = "loadRawData" /\ outcome = "pending"
    /\ \/ \E input \in InputsOfCall :
             /\ rawData' = input
             /\ pc' = "extractUsers"
             /\ outcome' = outcome
       \/ /\ rawData' = rawData
          /\ pc' = "extractUsers"
          /\ outcome' = outcome
    /\ UNCHANGED <<users, tunes, sets, recordings, sessions, errors,
                   exported, stats,
                   calls>>

\* loadRawData: the six files are read and parsed, or one of them is
\* missing or not JSON and the call throws
LoadRawData ==
    /\ pc = "loadRawData" /\ outcome = "pending"
    /\ \/ \E input \in InputsOfCall :
             /\ rawData' = input
             /\ pc' = "extractUsers"
             /\ outcome' = outcome
       \/ Reject /\ rawData' = rawData
    /\ UNCHANGED <<users, tunes, sets, recordings, sessions, errors,
                   exported, stats,
                   calls>>

ExtractUsers ==
    /\ pc = "extractUsers" /\ outcome = "pending"
    /\ LET r == extractUsers(rawData.tunes, rawData.sets, errors)
       IN  IF r.threw
           THEN Reject /\ users' = users
           ELSE users' = r.value /\ pc' = "normalizeTunes"
                /\ outcome' = outcome
    /\ UNCHANGED <<rawData, tunes, sets, recordings, sessions, errors,
                   exported, stats,
                   calls>>

NormalizeTunes ==
    /\ pc = "normalizeTunes" /\ outcome = "pending"
    /\ LET r == normalizeTunes(rawData.tunes, rawData.aliases, errors)
       IN  /\ errors' = r.errors
           /\ IF r.threw
              THEN Reject /\ tunes' = tunes
              ELSE tunes' = r.value /\ pc' = "normalizeSets"
                   /\ outcome' = outcome
    /\ UNCHANGED <<rawData, users, sets, recordings, sessions, exported,
                   stats,
                   calls>>

NormalizeSets ==
    /\ pc = "normalizeSets" /\ outcome = "pending"
    /\ \E r \in normalizeSets(rawData.sets, errors) :
           /\ errors' = r.errors
           /\ IF r.threw
              THEN Reject /\ sets' = sets
              ELSE sets' = r.value /\ pc' = "normalizeRecordings"
                   /\ outcome' = outcome
    /\ UNCHANGED <<rawData, users, tunes, recordings, sessions, exported,
                   stats,
                   calls>>

NormalizeRecordings ==
    /\ pc = "normalizeRecordings" /\ outcome = "pending"
    /\ LET r == normalizeRecordings(rawData.recordings, errors)
       IN  /\ errors' = r.errors
           /\ IF r.threw
              THEN Reject /\ recordings' = recordings
              ELSE recordings' = r.value /\ pc' = "normalizeSessions"
                   /\ outcome' = outcome
    /\ UNCHANGED <<rawData, users, tunes, sets, sessions, exported, stats,
                   calls>>

\* a variant that goes from the last normalization straight to the search
\* vectors
NormalizeSessionsSkipLinks ==
    /\ pc = "normalizeSessions" /\ outcome = "pending"
    /\ LET r == normalizeSessions(rawData.sessions, errors)
       IN  /\ errors' = r.errors
           /\ IF r.threw
              THEN Reject /\ sessions' = sessions
              ELSE sessions' = r.value /\ pc' = "generateSearchVectors"
                   /\ outcome' = outcome
    /\ UNCHANGED <<rawData, users, tunes, sets, recordings, exported, stats,
                   calls>>

NormalizeSessions ==
    /\ pc = "normalizeSessions" /\ outcome = "pending"
    /\ LET r == normalizeSessions(rawData.sessions, errors)
       IN  /\ errors' = r.errors
           /\ IF r.threw
              THEN Reject /\ sessions' = sessions
              ELSE sessions' = r.value /\ pc' = "linkSetsToTunes"
                   /\ outcome' = outcome
    /\ UNCHANGED <<rawData, users, tunes, sets, recordings, exported, stats,
                   calls>>

\* a variant that drops the compositions whose tune_id no tune has and
\* records an ImportError for each set that lost one
LinkSetsToTunesReporting ==
    /\ pc = "linkSetsToTunes" /\ outcome = "pending"
    /\ pc' = "linkRecordingsToTunes"
    /\ LET known(c) == \E k \in 1..Len(tunes) : tunes[k].tune_id = c.tune_id
           kept == [i \in 1..Len(sets) |->
                       [sets[i] EXCEPT !.compositions = SelectSeq(@, known)]]
           lost == SelectSeq(sets, LAMBDA st :
                       \E j \in 1..Len(st.compositions) :
                           ~known(st.compositions[j]))
       IN  /\ sets' = kept
           /\ errors' = errors \o
                  [i \in 1..Len(lost) |->
                      ImportError("set", NumberToString(lost[i].set_id),
                                  "Unknown tune", lost[i])]
    /\ UNCHANGED <<outcome, rawData, users, tunes, recordings, sessions,
                   exported, stats,
                   calls>>

\* tunesMap.get(composition.tune_id) for every composition; a hit and a
\* miss both do nothing
LinkSetsToTunes ==
    /\ pc = "linkSetsToTunes" /\ outcome = "pending"
    /\ pc' = "linkRecordingsToTunes"
    /\ UNCHANGED <<outcome, rawData, users, tunes, sets, recordings,
                   sessions, errors, exported, stats,
                   calls>>

LinkRecordingsToTunes ==
    /\ pc = "linkRecordingsToTunes" /\ outcome = "pending"
    /\ pc' = "generateMusicalFeatures"
    /\ UNCHANGED <<outcome, rawData, users, tunes, sets, recordings,
                   sessions, errors, exported, stats,
                   calls>>

\* a variant in which the pass over the settings computes nothing
GenerateMusicalFeaturesSkipped ==
    /\ pc = "generateMusicalFeatures" /\ outcome = "pending"
    /\ pc' = "generateSearchVectors"
    /\ UNCHANGED <<outcome, rawData, users, tunes, sets, recordings,
                   sessions, errors, exported, stats,
                   calls>>

GenerateMusicalFeatures ==
    /\ pc = "generateMusicalFeatures" /\ outcome = "pending"
    /\ LET r == generateMusicalFeatures(tunes, errors)
       IN  tunes' = r.value /\ errors' = r.errors
    /\ pc' = "generateSearchVectors"
    /\ UNCHANGED <<outcome, rawData, users, sets, recordings, sessions,
                   exported, stats,
                   calls>>

GenerateSearchVectors ==
    /\ pc = "generateSearchVectors" /\ outcome = "pending"
    /\ tunes' = [i \in 1..Len(tunes) |->
                    [tunes[i] EXCEPT !.search_text =
                        <<TuneSearchText(tunes[i])>>]]
    /\ sessions' = [i \in 1..Len(sessions) |->
                       [sessions[i] EXCEPT !.search_text =
                           <<SessionSearchText(sessions[i])>>]]
    /\ pc' = "exportProcessedData"
    /\ UNCHANGED <<outcome, rawData, users, sets, recordings, errors,
                   exported, stats,
                   calls>>

ExportProcessedData ==
    /\ pc = "exportProcessedData" /\ outcome = "pending"
    /\ exported' = <<[tunes |-> tunes, sets |-> sets,
                      recordings |-> recordings, sessions |-> sessions,
                      users |-> users]>>
    /\ pc' = "return"
    /\ UNCHANGED <<outcome, rawData, users, tunes, sets, recordings,
                   sessions, errors, stats,
                   calls>>

\* a variant that counts only the alias rows whose tune_id is the tune_id of
\* some raw tune row
ReturnStatsMatchedAliases ==
    /\ pc = "return" /\ outcome = "pending"
    /\ stats' = <<[tunes_processed |-> Len(tunes),
                   sets_processed |-> Len(sets),
                   recordings_processed |-> Len(recordings),
                   sessions_processed |-> Len(sessions),
                   aliases_processed |->
                       Len(SelectSeq(rawData.aliases, LAMBDA a :
                               \E k \in 1..Len(rawData.tunes) :
                                   rawData.tunes[k].tune_id = a.tune_id)),
                   errors |-> errors]>>
    /\ outcome' = "returned"
    /\ pc' = "done"
    /\ UNCHANGED <<rawData, users, tunes, sets, recordings, sessions,
                   errors, exported,
                   calls>>

ReturnStats ==
    /\ pc = "return" /\ outcome = "pending"
    /\ stats' = <<[tunes_processed |-> Len(tunes),
                   sets_processed |-> Len(sets),
                   recordings_processed |-> Len(recordings),
                   sessions_processed |-> Len(sessions),
                   aliases_processed |-> Len(rawData.aliases),
                   errors |-> errors]>>
    /\ outcome' = "returned"
    /\ pc' = "done"
    /\ UNCHANGED <<rawData, users, tunes, sets, recordings, sessions,
                   errors, exported,
                   calls>>

\* processAllData is called again on the same instance once the earlier
\* call has settled: the locals are new, this.errors is the field it was
ProcessAllDataAgain ==
    /\ outcome # "pending"
    /\ Len(calls) + 1 < MaxCalls
    /\ calls' = Append(calls, [stats |-> stats, before |-> ErrorsBefore,
                               after |-> Len(errors)])
    /\ pc' = "loadRawData"
    /\ outcome' = "pending"
    /\ rawData' = NoData
    /\ users' = <<>>
    /\ tunes' = <<>>
    /\ sets' = <<>>
    /\ recordings' = <<>>
    /\ sessions' = <<>>
    /\ exported' = <<>>
    /\ stats' = <<>>
    /\ UNCHANGED errors

Next ==
    \/ LoadRawData
    \/ ExtractUsers
    \/ NormalizeTunes
    \/ NormalizeSets
    \/ NormalizeRecordings
    \/ NormalizeSessions
    \/ LinkSetsToTunes
    \/ LinkRecordingsToTunes
    \/ GenerateMusicalFeatures
    \/ GenerateSearchVectors
    \/ ExportProcessedData
    \/ ReturnStats
    \/ ProcessAllDataAgain

Spec == Init /\ [][Next]_vars

----------------------------------------------------------------------------
(* Properties *)

\* s is an optional sign followed by decimal digits only
IsIntegerString(s) ==
    LET u == IF s # <<>> /\ Head(s) \in {"-", "+"} THEN Tail(s) ELSE s
    IN  u # <<>> /\ PrefixLen(u, Digits) = Len(u)

\* s is a decimal number: digits with at most one "." among them
IsDecimalString(s) ==
    LET u == IF s # <<>> /\ Head(s) \in {"-", "+"} THEN Tail(s) ELSE s
        n == PrefixLen(u, Digits)
        rest == Drop(u, n + 1)
    IN  \/ n > 0 /\ rest = <<>>
        \/ /\ rest # <<>> /\ Head(rest) = "."
           /\ PrefixLen(Tail(rest), Digits) = Len(rest) - 1
           /\ n + Len(rest) - 1 > 0

\* a <= b on numbers: false as soon as one of them is NaN
Leq(a, b) == ~IsNaN(a) /\ ~IsNaN(b) /\ a <= b

\* normalizeTunes has returned
TunesNormalized ==
    pc \notin {"loadRawData", "extractUsers", "normalizeTunes"}

\* normalizeSets has returned
SetsNormalized ==
    TunesNormalized /\ pc # "normalizeSets"

\* the state in which normalizeTunes has just returned
AtTunesReturn == pc = "normalizeSets" /\ outcome = "pending"

\* the state in which normalizeSessions has just returned
AtSessionsReturn == pc = "linkSetsToTunes" /\ outcome = "pending"

RECURSIVE CountSettings(_)
CountSettings(tuneSeq) ==
    IF tuneSeq = <<>> THEN 0
    ELSE Len(Head(tuneSeq).settings) + CountSettings(Tail(tuneSeq))

ErrorsTagged(type) == SelectSeq(errors, LAMBDA e : e.entity_type = type)

MalformedTuneRow(row) ==
    \/ ~IsIntegerString(row.tune_id)
    \/ ~IsIntegerString(row.setting_id)
    \/ IsNaN(NewDate(row.date))

MalformedTuneIndexes ==
    {i \in 1..Len(rawData.tunes) : MalformedTuneRow(rawData.tunes[i])}

\* C1: when normalizeTunes returns, every row whose tune_id or setting_id
\* is not an integer string or whose date does not parse has produced one
\* ImportError tagged "tune" carrying its tune_id and no setting, so the
\* settings number the well-formed rows and the errors the malformed ones,
\* and no tune carries a tune_id that is not a number.
C1_MalformedRowsIsolated ==
    AtTunesReturn =>
        /\ Len(ErrorsTagged("tune")) = Cardinality(MalformedTuneIndexes)
        /\ \A i \in MalformedTuneIndexes :
               \E k \in 1..Len(errors) :
                   /\ errors[k].entity_type = "tune"
                   /\ errors[k].entity_id = rawData.tunes[i].tune_id
        /\ CountSettings(tunes) =
               Len(rawData.tunes) - Cardinality(MalformedTuneIndexes)
        /\ \A k \in 1..Len(tunes) : ~IsNaN(tunes[k].tune_id)

\* C2: a run whose files loaded never rejects inside one of the four
\* normalization steps, whatever the elements of the tune, set, recording
\* and session arrays are (null included): errors of a row are caught.
C2_RowErrorsNeverPropagate ==
    (/\ outcome = "rejected"
     /\ \A i \in 1..Len(rawData.aliases) : ~rawData.aliases[i].isNull)
    => pc \notin {"normalizeTunes", "normalizeSets",
                  "normalizeRecordings", "normalizeSessions"}

InvalidCoordinateIndexes ==
    {i \in 1..Len(rawData.sessions) :
        \/ ~IsDecimalString(rawData.sessions[i].latitude)
        \/ ~IsDecimalString(rawData.sessions[i].longitude)}

\* C3: when normalizeSessions returns, every row whose latitude or
\* longitude is not a decimal number is absent from the output and has
\* one ImportError tagged "session" with its id; the other rows are all
\* output.
C3_InvalidCoordinateDropped ==
    AtSessionsReturn =>
        /\ Len(sessions) =
               Len(rawData.sessions) - Cardinality(InvalidCoordinateIndexes)
        /\ Len(ErrorsTagged("session")) =
               Cardinality(InvalidCoordinateIndexes)
        /\ \A i \in InvalidCoordinateIndexes :
               \E k \in 1..Len(errors) :
                   /\ errors[k].entity_type = "session"
                   /\ errors[k].entity_id = rawData.sessions[i].id
        /\ \A k \in 1..Len(sessions) :
               /\ ~IsNaN(sessions[k].location.coordinates.latitude)
               /\ ~IsNaN(sessions[k].location.coordinates.longitude)

\* C4: in every set returned by normalizeSets, for any rows (a settingorder
\* that is not a number included), adjacent compositions are in ascending
\* position order: position[i] <= position[i+1].
C4_PositionsAscending ==
    SetsNormalized =>
        \A k \in 1..Len(sets) :
            \A i \in 1..(Len(sets[k].compositions) - 1) :
                Leq(sets[k].compositions[i].position_in_set,
                    sets[k].compositions[i + 1].position_in_set)

\* the distinct values of a sequence in order of first occurrence
RECURSIVE FirstSeen(_)
FirstSeen(s) ==
    IF s = <<>> THEN <<>>
    ELSE LET init == FirstSeen(SubSeq(s, 1, Len(s) - 1))
         IN  IF \E i \in 1..Len(init) : init[i] = s[Len(s)] THEN init
             ELSE Append(init, s[Len(s)])

\* the rows of rawData.tunes carrying tune_id id, in input order
RowsOfTune(id) == SelectSeq(rawData.tunes, LAMBDA row : row.tune_id = id)

TuneIdStrings ==
    FirstSeen([i \in 1..Len(rawData.tunes) |-> rawData.tunes[i].tune_id])

\* C5: from the return of normalizeTunes on, there is one NormalizedTune
\* per distinct tune_id of the input rows, and its settings are exactly
\* one NormalizedSetting per input row carrying that tune_id, in input
\* order, rows repeating a setting_id included.
C5_GroupingMultiplicity ==
    TunesNormalized =>
        /\ Len(tunes) = Len(TuneIdStrings)
        /\ \A k \in 1..Len(tunes) :
               LET rows == RowsOfTune(TuneIdStrings[k])
               IN  /\ tunes[k].tune_id = ParseInt(TuneIdStrings[k])
                   /\ Len(tunes[k].settings) = Len(rows)
                   /\ \A j \in 1..Len(rows) :
                          /\ tunes[k].settings[j].setting_id =
                                 ParseInt(rows[j].setting_id)
                          /\ tunes[k].settings[j].abc_notation = rows[j].abc
                          /\ tunes[k].settings[j].contributor_username =
                                 rows[j].username

\* C5 witness: a tune holds two settings with the same setting_id
C5_Witness ==
    /\ TunesNormalized
    /\ \E k \in 1..Len(tunes) :
           \E i, j \in 1..Len(tunes[k].settings) :
               /\ i < j
               /\ tunes[k].settings[i].setting_id =
                      tunes[k].settings[j].setting_id

\* C6: no two NormalizedTune entries returned by normalizeTunes have the
\* same tune_id.
C6_TuneIdsUnique ==
    TunesNormalized =>
        \A i, j \in 1..Len(tunes) :
            i # j => tunes[i].tune_id # tunes[j].tune_id

\* the alias strings, in input order, of the alias rows whose tune_id is an
\* integer string with value id
AliasesOfTuneId(id) ==
    LET rows == SelectSeq(rawData.aliases,
                    LAMBDA a : IsIntegerString(a.tune_id)
                               /\ ParseInt(a.tune_id) = id)
    IN  [i \in 1..Len(rows) |-> rows[i].alias]

\* C7: every NormalizedTune with a numeric tune_id lists exactly the
\* aliases of the alias rows whose tune_id has that integer value, in
\* alias-row order.
C7_AliasCompleteness ==
    TunesNormalized =>
        \A k \in 1..Len(tunes) :
            ~IsNaN(tunes[k].tune_id) =>
                tunes[k].aliases = AliasesOfTuneId(tunes[k].tune_id)

BackReferencesHold(tuneSeq) ==
    \A k \in 1..Len(tuneSeq) :
        \A j \in 1..Len(tuneSeq[k].settings) :
            tuneSeq[k].settings[j].tune_id = tuneSeq[k].tune_id

\* C8: in every state, in the tunes collection and in the collection handed
\* to the export, the tune_id of every NormalizedSetting is the tune_id of
\* the NormalizedTune that holds it.
C8_BackReference ==
    /\ BackReferencesHold(tunes)
    /\ \A e \in 1..Len(exported) : BackReferencesHold(exported[e].tunes)

\* C8 witness: a run has returned with a tune that owns two settings
C8_Witness ==
    /\ outcome = "returned"
    /\ \E k \in 1..Len(tunes) :
           /\ Len(tunes[k].settings) >= 2
           /\ tunes[k].settings[2].tune_id = tunes[k].tune_id

\* the settings of all tunes
SettingsWithFeatures ==
    UNION {{tunes[k].settings[j] : j \in 1..Len(tunes[k].settings)} :
              k \in 1..Len(tunes)}

\* the MusicalFeatures blocks of all settings
AllFeatures ==
    {st.musical_features[1] :
        st \in {x \in SettingsWithFeatures : x.musical_features # <<>>}}

\* C9: every MusicalFeatures block has note_count = k >= 0, contour and
\* intervals of length max(k-1, 0), contour values in {-1, 0, 1} and
\* contour[i] = sign(intervals[i]).
C9_FeatureShape ==
    \A f \in AllFeatures :
        LET k == f.note_count
            n == IF k - 1 > 0 THEN k - 1 ELSE 0
        IN  /\ k >= 0
            /\ Len(f.melodic_contour) = n
            /\ Len(f.intervals) = n
            /\ \A i \in 1..n :
                   /\ f.melodic_contour[i] \in {-1, 0, 1}
                   /\ f.melodic_contour[i] =
                          (IF f.intervals[i] > 0 THEN 1
                           ELSE IF f.intervals[i] < 0 THEN -1 ELSE 0)

\* C9 witness: features of three or more notes with a falling step
C9_Witness ==
    \E f \in AllFeatures :
        /\ f.note_count >= 3
        /\ \E i \in 1..Len(f.melodic_contour) : f.melodic_contour[i] = -1

\* the features computed for the settings whose notation is ExampleAbc
ExampleFeatures ==
    {st.musical_features[1] :
        st \in {x \in SettingsWithFeatures :
                   /\ x.musical_features # <<>>
                   /\ x.abc_notation = ExampleAbc}}

ExampleHeaderFeatures(f) ==
    /\ f.note_count = 3
    /\ f.key_signature = <<"G", "m", "a", "j">>
    /\ f.time_signature = <<"6", "/", "8">>

\* C10 as claimed: the features of "K:Gmaj\nM:6/8\nABC" are note_count 3,
\* key "Gmaj", time "6/8", intervals [2, 3] and contour [1, 1].
C10_ExampleAsClaimed ==
    \A f \in ExampleFeatures :
        /\ ExampleHeaderFeatures(f)
        /\ f.intervals = <<2, 3>>
        /\ f.melodic_contour = <<1, 1>>

\* C10 amended: the features of "K:Gmaj\nM:6/8\nABC" are note_count 3,
\* key "Gmaj", time "6/8", intervals [2, -11] and contour [1, -1].
C10_ExampleFeatures ==
    \A f \in ExampleFeatures :
        /\ ExampleHeaderFeatures(f)
        /\ f.intervals = <<2, -11>>
        /\ f.melodic_contour = <<1, -1>>

\* C10 witness: the features of the example notation have been computed
C10_Witness ==
    /\ pc = "generateSearchVectors"
    /\ ExampleFeatures # {}

\* C12: the ImportStats of a run that returns has tunes_processed,
\* sets_processed, recordings_processed and sessions_processed equal to the
\* lengths of the four normalized collections, aliases_processed equal to the
\* number of raw alias rows, and errors equal to the list of recorded
\* ImportErrors; it is returned also when that list is not empty.
C12_ImportStats ==
    /\ outcome = "returned" =>
           /\ Len(stats) = 1
           /\ stats[1].tunes_processed = Len(tunes)
           /\ stats[1].sets_processed = Len(sets)
           /\ stats[1].recordings_processed = Len(recordings)
           /\ stats[1].sessions_processed = Len(sessions)
           /\ stats[1].aliases_processed = Len(rawData.aliases)
           /\ stats[1].errors = errors
    /\ (pc = "return" /\ outcome = "pending") => ENABLED ReturnStats

\* C12 witness: stats have been returned with a non-empty error list and
\* alias rows counted
C12_Witness ==
    /\ outcome = "returned"
    /\ stats[1].errors # <<>>
    /\ stats[1].aliases_processed > 0

\* the steps of processAllData in the order of its statements
PipelineSteps ==
    <<"loadRawData", "extractUsers", "normalizeTunes", "normalizeSets",
      "normalizeRecordings", "normalizeSessions", "linkSetsToTunes",
      "linkRecordingsToTunes", "generateMusicalFeatures",
      "generateSearchVectors", "exportProcessedData", "return", "done">>

\* the steps the order is claimed for
ClaimedSteps ==
    <<"normalizeTunes", "normalizeSets", "normalizeRecordings",
      "normalizeSessions", "linkSetsToTunes", "linkRecordingsToTunes",
      "generateSearchVectors", "exportProcessedData", "return">>

StepRank(step) ==
    CHOOSE i \in 1..Len(PipelineSteps) : PipelineSteps[i] = step

\* some tune or session carries a search vector
SearchVectorsPresent ==
    \/ \E k \in 1..Len(tunes) : tunes[k].search_text # <<>>
    \/ \E k \in 1..Len(sessions) : sessions[k].search_text # <<>>

\* C13: within every call the steps run strictly in the order normalize tunes, sets,
\* recordings, sessions, link sets, link recordings, generate search vectors,
\* export, return stats: the step that begins is always the one that follows
\* the step that has just completed, the claimed steps follow each other in
\* the claimed order, and search vectors, export and stats exist only once
\* all the steps before them have completed.
C13_StepOrder ==
    /\ [][(pc' # pc /\ calls' = calls) =>
              StepRank(pc') = StepRank(pc) + 1]_vars
    /\ [](/\ \A i, j \in 1..Len(ClaimedSteps) :
                  i < j => StepRank(ClaimedSteps[i]) < StepRank(ClaimedSteps[j])
           /\ (SearchVectorsPresent =>
                  pc \in {"exportProcessedData", "return", "done"})
           /\ (exported # <<>> => pc \in {"return", "done"})
           /\ (stats # <<>> => pc = "done" /\ exported # <<>>))

\* C13 witness: a run has gone through every step and holds search vectors
C13_Witness ==
    /\ pc = "done"
    /\ exported # <<>>
    /\ \E k \in 1..Len(tunes) : tunes[k].search_text # <<>>
    /\ \E k \in 1..Len(sessions) : sessions[k].search_text # <<>>

\* C14: when loading the input files fails, processAllData rejects, returns
\* no ImportStats, runs no normalization step and writes no export: a run
\* whose raw data was not loaded never leaves loadRawData and holds no
\* users, collections, errors of its own, export or stats, and a run that is rejected in
\* loadRawData has loaded nothing.
C14_LoadFailure ==
    /\ rawData = NoData =>
           /\ pc = "loadRawData"
           /\ outcome \in {"pending", "rejected"}
           /\ users = <<>> /\ tunes = <<>> /\ sets = <<>>
           /\ recordings = <<>> /\ sessions = <<>>
           /\ Len(errors) = ErrorsBefore
           /\ exported = <<>> /\ stats = <<>>
    /\ pc = "loadRawData" => rawData = NoData

\* C14 witness: the run was rejected in loadRawData
C14_Witness == outcome = "rejected" /\ pc = "loadRawData"

\* normalizeRecordings has returned
RecordingsNormalized == SetsNormalized /\ pc # "normalizeRecordings"

\* the distinct artist names of the raw recording rows in first-seen order
ArtistNames ==
    FirstSeen([i \in 1..Len(rawData.recordings) |->
                  rawData.recordings[i].artist])

\* C15: the k-th distinct artist name of the recording rows gets artist_id
\* k, counting from 1: every NormalizedRecording carries the first-seen index
\* of its artist name, so recordings of one artist share their artist_id and
\* recordings of different artists do not.
C15_ArtistIds ==
    RecordingsNormalized =>
        /\ \A k \in 1..Len(recordings) :
               /\ recordings[k].artist_id \in 1..Len(ArtistNames)
               /\ ArtistNames[recordings[k].artist_id] =
                      recordings[k].artist_name
        /\ \A k, l \in 1..Len(recordings) :
               (recordings[k].artist_name = recordings[l].artist_name)
                   <=> (recordings[k].artist_id = recordings[l].artist_id)

\* C15 witness: the recordings of a first and of a second artist
C15_Witness ==
    /\ RecordingsNormalized
    /\ Len(recordings) = 2
    /\ recordings[1].artist_id = 1
    /\ recordings[2].artist_id = 2

\* the state in which normalizeSets has just returned
AtSetsReturn == pc = "normalizeRecordings" /\ outcome = "pending"

\* the state in which normalizeRecordings has just returned
AtRecordingsReturn == pc = "normalizeSessions" /\ outcome = "pending"

MalformedSetRow(row) ==
    \/ ~IsIntegerString(row.tuneset)
    \/ ~IsIntegerString(row.tune_id)
    \/ ~IsIntegerString(row.setting_id)
    \/ ~IsIntegerString(row.settingorder)

MalformedRecordingRow(row) ==
    \/ ~IsIntegerString(row.id)
    \/ ~IsIntegerString(row.track)
    \/ ~IsIntegerString(row.number)

RECURSIVE CountCompositions(_)
CountCompositions(setSeq) ==
    IF setSeq = <<>> THEN 0
    ELSE Len(Head(setSeq).compositions) + CountCompositions(Tail(setSeq))

\* no set id, composition id or position is NaN
SetsHoldNoNaN ==
    \A k \in 1..Len(sets) :
        /\ ~IsNaN(sets[k].set_id)
        /\ \A j \in 1..Len(sets[k].compositions) :
               LET c == sets[k].compositions[j]
               IN  /\ ~IsNaN(c.tune_id) /\ ~IsNaN(c.setting_id)
                   /\ ~IsNaN(c.position_in_set)

\* no recording id, track id, track number or position is NaN
RecordingsHoldNoNaN ==
    \A k \in 1..Len(recordings) :
        /\ ~IsNaN(recordings[k].recording_id)
        /\ \A j \in 1..Len(recordings[k].tracks) :
               LET t == recordings[k].tracks[j]
               IN  /\ ~IsNaN(t.track_id) /\ ~IsNaN(t.track_number)
                   /\ \A i \in 1..Len(t.tunes) :
                          ~IsNaN(t.tunes[i].position_in_track)

\* C16: every raw set row whose set id, tune id, setting id or position is
\* not an integer string yields exactly one ImportError tagged "set" and no
\* set or composition, every raw recording row whose id, track number or
\* position is not an integer string yields exactly one ImportError tagged
\* "recording" and no recording, track or track tune; the other rows are
\* processed normally and no NaN id appears in the output.
C16_ParseFailuresIsolated ==
    /\ AtSetsReturn =>
           LET bad == SelectSeq(rawData.sets, MalformedSetRow)
           IN  /\ Len(ErrorsTagged("set")) = Len(bad)
               /\ CountCompositions(sets) = Len(rawData.sets) - Len(bad)
               /\ SetsHoldNoNaN
    /\ AtRecordingsReturn =>
           LET bad == SelectSeq(rawData.recordings, MalformedRecordingRow)
           IN  /\ Len(ErrorsTagged("recording")) = Len(bad)
               /\ RecordingsHoldNoNaN

\* the distinct set ids of the raw set rows in first-seen order
SetKeys ==
    FirstSeen([i \in 1..Len(rawData.sets) |-> rawData.sets[i].tuneset])

\* the compositions appended for set id ts, in input order
AppendedCompositions(ts) ==
    LET rows == SelectSeq(rawData.sets, LAMBDA row : row.tuneset = ts)
    IN  [i \in 1..Len(rows) |-> NewSetComposition(rows[i])]

\* out holds the elements of in, each as often as in does, and elements of
\* equal position stand in out in the order they have in in
StablePermutation(out, in) ==
    /\ Len(out) = Len(in)
    /\ \E p \in [1..Len(in) -> 1..Len(in)] :
           /\ \A i, j \in 1..Len(in) : p[i] = p[j] => i = j
           /\ \A i \in 1..Len(in) : out[i] = in[p[i]]
           /\ \A i, j \in 1..Len(in) :
                  (i < j /\ StrictEq(out[i].position_in_set,
                                     out[j].position_in_set))
                      => p[i] < p[j]

\* C17: the sets are output in first-seen order of their set id, the
\* compositions of each set are after sorting exactly the compositions
\* appended for it, one per input row of that set id, and two compositions
\* of equal position_in_set keep their relative input order.
C17_StablePermutation ==
    SetsNormalized =>
        /\ Len(sets) = Len(SetKeys)
        /\ \A k \in 1..Len(sets) :
               /\ sets[k].set_id = ParseInt(SetKeys[k])
               /\ StablePermutation(sets[k].compositions,
                                    AppendedCompositions(SetKeys[k]))

\* the settings that carry a MusicalFeatures block
FeaturedSettings ==
    {x \in SettingsWithFeatures : x.musical_features # <<>>}

\* the letters that start a note
ClaimedNoteLetters ==
    {"A", "B", "C", "D", "E", "F", "G", "a", "b", "c", "d", "e", "f", "g"}

\* position i of abc lies in a line that starts with "K:", "M:" or "L:"
InHeaderLine(abc, i) ==
    LET start == CHOOSE j \in 1..i :
                     /\ j = 1 \/ abc[j - 1] = "\n"
                     /\ \A k \in j..(i - 1) : abc[k] # "\n"
    IN  /\ start + 1 <= Len(abc)
        /\ abc[start] \in {"K", "M", "L"}
        /\ abc[start + 1] = ":"

\* the letters A-G and a-g of abc from position i on that stand outside the
\* header lines, in the order of the text
RECURSIVE ClaimedNotesFrom(_, _)
ClaimedNotesFrom(abc, i) ==
    IF i > Len(abc) THEN <<>>
    ELSE (IF abc[i] \in ClaimedNoteLetters /\ ~InHeaderLine(abc, i)
          THEN <<abc[i]>> ELSE <<>>) \o ClaimedNotesFrom(abc, i + 1)

\* C=0, D=2, E=4, F=5, G=7, A=9, B=11, a lowercase letter 12 higher
ClaimedPitch(letter) ==
    LET upper == CASE letter \in {"C", "c"} -> "C"
                   [] letter \in {"D", "d"} -> "D"
                   [] letter \in {"E", "e"} -> "E"
                   [] letter \in {"F", "f"} -> "F"
                   [] letter \in {"G", "g"} -> "G"
                   [] letter \in {"A", "a"} -> "A"
                   [] letter \in {"B", "b"} -> "B"
        base == CASE upper = "C" -> 0 [] upper = "D" -> 2
                  [] upper = "E" -> 4 [] upper = "F" -> 5
                  [] upper = "G" -> 7 [] upper = "A" -> 9
                  [] upper = "B" -> 11
    IN  IF letter = upper THEN base ELSE base + 12

\* C18: intervals[i] is pitch(note[i+1]) - pitch(note[i]) for every pair of
\* consecutive notes, the pitch being read from the leading letter only
\* (C=0, D=2, E=4, F=5, G=7, A=9, B=11, lowercase 12 higher), whatever octave
\* markers and duration digits follow the letter; every interval lies in
\* -23..23.
C18_Intervals ==
    \A st \in FeaturedSettings :
        LET f == st.musical_features[1]
            letters == ClaimedNotesFrom(st.abc_notation, 1)
        IN  /\ Len(f.intervals) =
                   (IF Len(letters) > 0 THEN Len(letters) - 1 ELSE 0)
            /\ \A i \in 1..Len(f.intervals) :
                   /\ f.intervals[i] =
                          ClaimedPitch(letters[i + 1]) - ClaimedPitch(letters[i])
                   /\ f.intervals[i] \in (-23)..23

\* C18 witness: an interval between a note with an octave marker or a
\* duration and a lowercase note
C18_Witness ==
    \E st \in FeaturedSettings :
        /\ \E i \in 1..Len(st.abc_notation) :
               st.abc_notation[i] \in {"'", ",", "2"}
        /\ \E i \in 1..Len(st.abc_notation) :
               st.abc_notation[i] \in {"a", "c"}
        /\ \E i \in 1..Len(st.musical_features[1].intervals) :
               st.musical_features[1].intervals[i] > 11

\* the captures ([A-G][#b]?(?:maj|min|dor|mix|lyd|phr|loc)?) can take
KeyCaptures ==
    {<<l>> \o a \o m :
        l \in {"A", "B", "C", "D", "E", "F", "G"},
        a \in {<<>>, <<"#">>, <<"b">>},
        m \in {<<>>, <<"m", "a", "j">>, <<"m", "i", "n">>, <<"d", "o", "r">>,
               <<"m", "i", "x">>, <<"l", "y", "d">>, <<"p", "h", "r">>,
               <<"l", "o", "c">>}}

\* s holds text at position p
HoldsAt(s, p, text) ==
    p + Len(text) - 1 <= Len(s) /\ SubSeq(s, p, p + Len(text) - 1) = text

\* the captures with which K:\s*(...) matches s at position p
KeyCapturesAt(s, p) ==
    IF ~HoldsAt(s, p, <<"K", ":">>) THEN {}
    ELSE {g \in KeyCaptures :
             \E w \in 0..Len(s) :
                 /\ \A i \in (p + 2)..(p + 1 + w) :
                        i <= Len(s) /\ s[i] \in {" ", "\t", "\n", "\r"}
                 /\ HoldsAt(s, p + 2 + w, g)}

\* the longest capture of the leftmost match, "C" when nothing matches
ClaimedKey(s) ==
    IF \A p \in 1..Len(s) : KeyCapturesAt(s, p) = {} THEN <<"C">>
    ELSE LET p == CHOOSE q \in 1..Len(s) :
                      /\ KeyCapturesAt(s, q) # {}
                      /\ \A j \in 1..(q - 1) : KeyCapturesAt(s, j) = {}
         IN  CHOOSE g \in KeyCapturesAt(s, p) :
                 \A h \in KeyCapturesAt(s, p) : Len(h) <= Len(g)

AllDigits(s, from, to) ==
    \A i \in from..to :
        i <= Len(s)
        /\ s[i] \in {"0", "1", "2", "3", "4", "5", "6", "7", "8", "9"}

\* the captures <<from, to>> with which M:\s*(\d+\/\d+) matches s at
\* position p, the digits taken as far as they go
TimeCapturesAt(s, p) ==
    IF ~HoldsAt(s, p, <<"M", ":">>) THEN {}
    ELSE {c \in ((p + 2)..Len(s)) \X ((p + 2)..Len(s)) :
             /\ \A i \in (p + 2)..(c[1] - 1) :
                    s[i] \in {" ", "\t", "\n", "\r"}
             /\ \E slash \in (c[1] + 1)..(c[2] - 1) :
                    /\ s[slash] = "/"
                    /\ AllDigits(s, c[1], slash - 1)
                    /\ AllDigits(s, slash + 1, c[2])
             /\ ~AllDigits(s, c[2] + 1, c[2] + 1)}

ClaimedTime(s) ==
    IF \A p \in 1..Len(s) : TimeCapturesAt(s, p) = {} THEN <<"4", "/", "4">>
    ELSE LET p == CHOOSE q \in 1..Len(s) :
                      /\ TimeCapturesAt(s, q) # {}
                      /\ \A j \in 1..(q - 1) : TimeCapturesAt(s, j) = {}
             c == CHOOSE d \in TimeCapturesAt(s, p) : TRUE
         IN  SubSeq(s, c[1], c[2])

\* C19: key_signature is the capture of the first match of
\* K:\s*([A-G][#b]?(?:maj|min|dor|mix|lyd|phr|loc)?) on the whole notation,
\* header lines included, and "C" when nothing matches; time_signature is the
\* capture of the first match of M:\s*(\d+/\d+) and "4/4" when nothing
\* matches; every notation that is a string gets both.
C19_KeyAndTime ==
    /\ \A st \in FeaturedSettings :
           /\ st.musical_features[1].key_signature =
                  ClaimedKey(st.abc_notation)
           /\ st.musical_features[1].time_signature =
                  ClaimedTime(st.abc_notation)
    /\ pc \in {"generateSearchVectors", "exportProcessedData", "return", "done"}
           => \A st \in SettingsWithFeatures :
                  st.abc_notation # Undefined => st.musical_features # <<>>

\* C19 witness: a key with accidental and mode after white space and a
\* meter of several digits, both taken from the first of two header lines
C19_Witness ==
    \E st \in FeaturedSettings :
        /\ st.abc_notation = AbcTwoKeys
        /\ st.musical_features[1].key_signature = <<"B", "b", "m", "i", "n">>
        /\ st.musical_features[1].time_signature = <<"1", "2", "/", "8">>

Contains(s, text) ==
    \E p \in 1..Len(s) : HoldsAt(s, p, text)

\* C21: the full_address of every session never contains ", ," whatever
\* subset of address, town, area and country is empty, two or more adjacent
\* empty components included.
C21_NoCommaArtifact ==
    \A k \in 1..Len(sessions) :
        ~Contains(sessions[k].full_address, <<",", " ", ",">>)

\* the raw recording rows of the artist and album of a NormalizedRecording,
\* in input order
RowsOfRecording(rec) ==
    SelectSeq(rawData.recordings,
              LAMBDA row : /\ row.artist = rec.artist_name
                           /\ row.recording = rec.album_name)

\* C22: within every NormalizedRecording no two tracks have the same
\* track_number, a row whose track number matches an existing track of its
\* recording creates no new track, and the tracks stand in order of first
\* discovery: the track numbers of a recording are the distinct track
\* numbers of its rows in first-seen order.
C22_TrackFindOrCreate ==
    RecordingsNormalized =>
        \A k \in 1..Len(recordings) :
            LET rows == RowsOfRecording(recordings[k])
                trs == recordings[k].tracks
            IN  /\ \A i, j \in 1..Len(trs) :
                       trs[i].track_number = trs[j].track_number => i = j
                /\ [i \in 1..Len(trs) |-> trs[i].track_number] =
                       FirstSeen([i \in 1..Len(rows) |-> ParseInt(rows[i].track)])

\* C23: a raw recording row with an empty tune_id still finds or creates its
\* recording and its track but appends no TrackTune and no error, a row with
\* a non-empty tune_id appends exactly one TrackTune: every row has its track
\* in its recording, the TrackTunes of a track are as many as the rows of
\* that recording and track number with a non-empty tune_id, and no
\* ImportError tagged "recording" is recorded.
C23_UntrackedContent ==
    RecordingsNormalized =>
        /\ ErrorsTagged("recording") = <<>>
        /\ \A r \in 1..Len(rawData.recordings) :
               \E k \in 1..Len(recordings) :
                   /\ recordings[k].artist_name = rawData.recordings[r].artist
                   /\ recordings[k].album_name = rawData.recordings[r].recording
                   /\ \E t \in 1..Len(recordings[k].tracks) :
                          recordings[k].tracks[t].track_number =
                              ParseInt(rawData.recordings[r].track)
        /\ \A k \in 1..Len(recordings) :
               \A t \in 1..Len(recordings[k].tracks) :
                   Len(recordings[k].tracks[t].tunes) =
                       Len(SelectSeq(RowsOfRecording(recordings[k]),
                               LAMBDA row :
                                   /\ ParseInt(row.track) =
                                          recordings[k].tracks[t].track_number
                                   /\ row.tune_id \notin {<<>>, Undefined}))

\* the tune_id is the id of no NormalizedTune
Unresolved(tune_id) ==
    \A k \in 1..Len(tunes) : tunes[k].tune_id # tune_id

UpperLetters ==
    <<"A", "B", "C", "D", "E", "F", "G", "H", "I", "J", "K", "L", "M",
      "N", "O", "P", "Q", "R", "S", "T", "U", "V", "W", "X", "Y", "Z">>

LowerLetters ==
    <<"a", "b", "c", "d", "e", "f", "g", "h", "i", "j", "k", "l", "m",
      "n", "o", "p", "q", "r", "s", "t", "u", "v", "w", "x", "y", "z">>

\* s with every uppercase letter replaced by its lowercase letter
LowerCased(s) ==
    [i \in 1..Len(s) |->
        IF \E n \in 1..26 : UpperLetters[n] = s[i]
        THEN LowerLetters[CHOOSE n \in 1..26 : UpperLetters[n] = s[i]]
        ELSE s[i]]

\* the parts written one after the other with one space between two parts
RECURSIVE SpaceJoined(_)
SpaceJoined(parts) ==
    IF Len(parts) = 0 THEN <<>>
    ELSE IF Len(parts) = 1 THEN parts[1]
    ELSE SpaceJoined(SubSeq(parts, 1, Len(parts) - 1))
         \o <<" ">> \o parts[Len(parts)]

\* the entities are those of before, their search_text aside
SameButSearchText(after, before) ==
    /\ Len(after) = Len(before)
    /\ \A k \in 1..Len(before) :
           [after[k] EXCEPT !.search_text = <<>>] =
               [before[k] EXCEPT !.search_text = <<>>]

\* C25: after generateSearchVectors every tune has search_text equal to the
\* lower-cased, single-space-joined sequence (canonical name, each alias in
\* order, type, mode) and every session has search_text equal to the
\* lower-cased, space-joined (venue name, town, area, country); the step
\* changes no other field, removes no entity and adds no ImportError.
C25_SearchText ==
    /\ [](pc \in {"exportProcessedData", "return", "done"} =>
             /\ \A k \in 1..Len(tunes) :
                    tunes[k].search_text =
                        <<LowerCased(SpaceJoined(
                              <<tunes[k].canonical_name>> \o tunes[k].aliases
                              \o <<tunes[k].type, tunes[k].mode>>))>>
             /\ \A k \in 1..Len(sessions) :
                    sessions[k].search_text =
                        <<LowerCased(SpaceJoined(
                              <<sessions[k].venue_name,
                                sessions[k].location.town,
                                sessions[k].location.area,
                                sessions[k].location.country>>))>>)
    /\ [][(pc = "generateSearchVectors") =>
             (/\ SameButSearchText(tunes', tunes)
              /\ SameButSearchText(sessions', sessions)
              /\ sets' = sets /\ recordings' = recordings
              /\ users' = users /\ errors' = errors)]_vars

\* C25 witness: search vectors of a tune with two aliases and of a session
\* without a town
C25_Witness ==
    /\ pc = "exportProcessedData"
    /\ \E k \in 1..Len(tunes) :
           Len(tunes[k].aliases) = 2 /\ tunes[k].search_text # <<>>
    /\ \E k \in 1..Len(sessions) :
           sessions[k].location.town = <<>> /\ sessions[k].search_text # <<>>

\* C26 as claimed: in the state where normalizeTunes has returned every
\* NormalizedSetting already carries its MusicalFeatures block.
C26_FeaturesEager ==
    AtTunesReturn =>
        \A st \in SettingsWithFeatures : st.musical_features # <<>>

\* C26 amended: features are computed in a pass of their own: from the
\* return of normalizeTunes until generateMusicalFeatures runs, after both
\* link passes, no NormalizedSetting carries a MusicalFeatures block; once it
\* has run, every setting whose notation is a string carries one.
C26_FeaturesDeferred ==
    /\ pc \in {"normalizeSets", "normalizeRecordings", "normalizeSessions",
                "linkSetsToTunes", "linkRecordingsToTunes",
                "generateMusicalFeatures"}
           => \A st \in SettingsWithFeatures : st.musical_features = <<>>
    /\ pc \in {"generateSearchVectors", "exportProcessedData", "return",
                "done"}
           => \A st \in SettingsWithFeatures :
                  st.abc_notation # Undefined => st.musical_features # <<>>

\* C26 witness: normalizeTunes has returned settings, none with features
C26_Witness ==
    /\ AtTunesReturn
    /\ SettingsWithFeatures # {}
    /\ \A st \in SettingsWithFeatures : st.musical_features = <<>>

\* the rows of rawData.tunes whose tune_id parses to id, in input order
RowsCarrying(id) ==
    SelectSeq(rawData.tunes, LAMBDA row : ParseInt(row.tune_id) = id)

\* the alias strings the index holds for a tune_id string, in input order
IndexedAliases(id) ==
    LET rows == SelectSeq(rawData.aliases, LAMBDA a : a.tune_id = id)
    IN  [i \in 1..Len(rows) |-> rows[i].alias]

\* the descriptive fields of a NormalizedTune are those of the row
SeededFrom(tune, row) ==
    /\ tune.canonical_name = row.name
    /\ tune.type = row.type
    /\ tune.meter = row.meter
    /\ tune.mode = row.mode
    /\ tune.created_at = NewDate(row.date)
    /\ tune.aliases = IndexedAliases(row.tune_id)

\* C27: from the return of normalizeTunes on, the tunes are in first-seen
\* order of tune id, every NormalizedTune has the canonical_name, type,
\* meter, mode, created_at and aliases of the first input row carrying its
\* tune id whatever the later rows of that id hold, and its
\* popularity_score is 0.
C27_FirstSeenSeeding ==
    TunesNormalized =>
        /\ [k \in 1..Len(tunes) |-> tunes[k].tune_id] =
               FirstSeen([i \in 1..Len(rawData.tunes) |->
                             ParseInt(rawData.tunes[i].tune_id)])
        /\ \A k \in 1..Len(tunes) :
               /\ SeededFrom(tunes[k], RowsCarrying(tunes[k].tune_id)[1])
               /\ tunes[k].popularity_score = 0

\* C28: errors do not leak between the calls on one instance: the errors
\* list of the ImportStats a call returns holds the ImportErrors recorded
\* during that call and no others, and an ImportStats that an earlier call
\* returned reads as it did when it was returned.
C28_ErrorsPerRun ==
    /\ outcome = "returned" =>
           stats[1].errors = SubSeq(errors, ErrorsBefore + 1, Len(errors))
    /\ \A k \in 1..Len(calls) :
           calls[k].stats # <<>> =>
               ImportStatsNow(calls[k].stats[1]) = calls[k].stats[1]

\* the distinct (artist, album) pairs of the recording rows, first-seen order
RecordingPairs ==
    FirstSeen([i \in 1..Len(rawData.recordings) |->
                  <<rawData.recordings[i].artist,
                    rawData.recordings[i].recording>>])

\* the rows of a pair, in input order
RowsOfPair(pair) ==
    SelectSeq(rawData.recordings,
              LAMBDA row : <<row.artist, row.recording>> = pair)

\* the number of TrackTunes of a NormalizedRecording
RECURSIVE CountTrackTunes(_)
CountTrackTunes(tracks) ==
    IF tracks = <<>> THEN 0
    ELSE Len(Head(tracks).tunes) + CountTrackTunes(Tail(tracks))

\* C29: from the return of normalizeRecordings on there is one
\* NormalizedRecording per distinct (artist, album name) pair of the rows,
\* whatever characters the names hold; it has the recording_id, album_name
\* and artist_name of the first row of its pair, and the rows merged into it
\* are the rows of its pair.
C29_RecordingIdentity ==
    RecordingsNormalized =>
        /\ Len(recordings) = Len(RecordingPairs)
        /\ \A k \in 1..Len(recordings) :
               k <= Len(RecordingPairs) =>
                   LET rows == RowsOfPair(RecordingPairs[k])
                   IN  /\ recordings[k].recording_id = ParseInt(rows[1].id)
                       /\ recordings[k].album_name = rows[1].recording
                       /\ recordings[k].artist_name = rows[1].artist
                       /\ CountTrackTunes(recordings[k].tracks) =
                              Len(SelectSeq(rows,
                                      LAMBDA row : Truthy(row.tune_id)))

\* the settings of a sequence of tunes in the order the loops visit them,
\* each with the index and the id of the tune that holds it
RECURSIVE FlatSettings(_, _)
FlatSettings(tuneSeq, k) ==
    IF k > Len(tuneSeq) THEN <<>>
    ELSE [j \in 1..Len(tuneSeq[k].settings) |->
             [tune |-> k, tune_id |-> tuneSeq[k].tune_id,
              setting |-> tuneSeq[k].settings[j]]]
         \o FlatSettings(tuneSeq, k + 1)

\* C30: generateMusicalFeatures keeps every setting in its tune and changes
\* nothing of it but musical_features; it appends to the error list one
\* ImportError tagged "tune", with the id of the holding tune as entity_id,
\* for each setting it leaves without musical_features, in the order of the
\* settings, and nothing else; and it sets musical_features on every setting
\* whose notation is a string, those after a failed setting included.
C30_FailuresIsolated ==
    [][(pc = "generateMusicalFeatures" /\ pc' = "generateSearchVectors") =>
          LET before == FlatSettings(tunes, 1)
              after == FlatSettings(tunes', 1)
              failed == SelectSeq(after,
                            LAMBDA e : e.setting.musical_features = <<>>)
              added == SubSeq(errors', Len(errors) + 1, Len(errors'))
          IN  (/\ Len(tunes') = Len(tunes)
               /\ Len(after) = Len(before)
               /\ \A i \in 1..Len(before) :
                      /\ after[i].tune = before[i].tune
                      /\ after[i].tune_id = before[i].tune_id
                      /\ [after[i].setting EXCEPT !.musical_features = <<>>]
                             = before[i].setting
                      /\ before[i].setting.abc_notation # Undefined =>
                             after[i].setting.musical_features # <<>>
               /\ SubSeq(errors', 1, Len(errors)) = errors
               /\ Len(added) = Len(failed)
               /\ \A i \in 1..Len(added) :
                      i <= Len(failed) =>
                          /\ added[i].entity_type = "tune"
                          /\ added[i].entity_id =
                                 NumberToString(failed[i].tune_id)
                          /\ added[i].raw_data = failed[i].setting)]_vars

\* C30 witness: a tune holds a setting whose extraction failed followed by
\* a setting that carries features, and the failure is in the error list
C30_Witness ==
    /\ pc = "generateSearchVectors"
    /\ \E k \in 1..Len(tunes) :
           /\ \E i, j \in 1..Len(tunes[k].settings) :
                  /\ i < j
                  /\ tunes[k].settings[i].musical_features = <<>>
                  /\ tunes[k].settings[j].musical_features # <<>>
           /\ \E e \in 1..Len(errors) :
                  /\ errors[e].entity_type = "tune"
                  /\ errors[e].entity_id = NumberToString(tunes[k].tune_id)

====
